---- MODULE Spec2Model ----
(***************************************************************************)
(* A model of runnerapp (Running Fit-Tech): the normalisation and          *)
(* derived-metric functions of calculations.py, the AthleteProfile model   *)
(* of models.py, the plan request of ai_interface.py, the available and    *)
(* unavailable training days prompts of cli.py, the profile file of        *)
(* persistence.py, the interactive session of cli.py and main.py, the      *)
(* period parser of training_period_validator.py and the document of       *)
(* json_optimizer.py.                                                      *)
(*                                                                         *)
(* Text is modelled as a sequence of one-character strings, so that        *)
(* trimming, lower-casing, pattern matching and formatting are computed    *)
(* character by character.  Optional values are modelled as sequences of   *)
(* length at most one: None is << >> and a present value v is << v >>.     *)
(***************************************************************************)
EXTENDS Integers, Sequences, FiniteSets, TLC

VARIABLES fn, arg, res, pc,
          profile, doc, copy, complete, completeBefore, mpc,
          apiKey, requests, response, planResult, ppc,
          available_training_days, unavailable_days, unavailable_days_input,
          validation_errors, dayCountRule, cpc,
          file, fileBefore, persistResult, fpc,
          baseline, sectionEntry, lastSection, explicitSave, edits, mode, spc,
          clock, aiCalls, opc

\* the call of a pure function: its name, its argument, its result, and
\* whether it has returned
CalcVars == <<fn, arg, res, pc>>

\* an AthleteProfile object, the last document made from it by to_dict, the
\* object from_dict made of that document, the results of the last is_complete()
\* call and of the one before the main objective was set, and the last operation
ModelVars == <<profile, doc, copy, complete, completeBefore, mpc>>

\* one call of generate_training_plan: the state of GOOGLE_API_KEY, the number
\* of requests sent to the external model, the response received, the value
\* returned, and the position in the function
PlanVars == <<apiKey, requests, response, planResult, ppc>>

\* the training-days prompts of prompt_training_context: the two fields of the
\* profile they set, the last text typed at the unavailable-days prompt, the
\* warnings of the last coherence check, how a range of days is counted, and
\* the position in the function
CoherenceVars == <<available_training_days, unavailable_days, unavailable_days_input,
                   validation_errors, dayCountRule, cpc>>

\* the profile file: its content, its content before the current operation or
\* session, the outcome of the last load_profile or save_profile call, and the
\* position of that call
PersistVars == <<file, fileBefore, persistResult, fpc>>

\* one interactive session: the baseline the session compares the profile with,
\* the profile at the entry of the last section, which section that was and
\* whether it was interrupted, whether the user has asked for a save, the
\* number of sections visited, the entry point of main.py, and the position
SessionVars == <<baseline, sectionEntry, lastSection, explicitSave, edits, mode, spc>>

\* the calls of optimize_profile_for_ai: the value datetime.now() gives (in
\* half days), the calls made so far, each with its time, the profile before
\* and after it and the document it returned, and the position
OptimizerVars == <<clock, aiCalls, opc>>

vars == <<fn, arg, res, pc, profile, doc, copy, complete, completeBefore, mpc,
          apiKey, requests, response, planResult, ppc,
          available_training_days, unavailable_days, unavailable_days_input,
          validation_errors, dayCountRule, cpc,
          file, fileBefore, persistResult, fpc,
          baseline, sectionEntry, lastSection, explicitSave, edits, mode, spc,
          clock, aiCalls, opc>>

OtherThanCalc == <<ModelVars, PlanVars, CoherenceVars, PersistVars, SessionVars,
                   OptimizerVars>>

OtherThanModel == <<CalcVars, PlanVars, CoherenceVars, PersistVars, SessionVars,
                    OptimizerVars>>

OtherThanPlan == <<CalcVars, doc, copy, complete, completeBefore, mpc, CoherenceVars,
                   PersistVars, SessionVars, OptimizerVars>>

OtherThanCoherence == <<CalcVars, ModelVars, PlanVars, PersistVars, SessionVars,
                        OptimizerVars>>

\* what the persistence calls leave alone
OtherThanPersist == <<CalcVars, doc, copy, complete, completeBefore, mpc, PlanVars,
                      CoherenceVars, SessionVars, OptimizerVars>>

\* what the session leaves alone
OtherThanSession == <<CalcVars, doc, copy, complete, completeBefore, mpc, PlanVars,
                      CoherenceVars, persistResult, fpc, OptimizerVars>>

\* what optimize_profile_for_ai and the clock leave alone
OtherThanOptimizer == <<CalcVars, ModelVars, PlanVars, CoherenceVars, PersistVars,
                        SessionVars>>

(***************************************************************************)
(* Optional values.                                                        *)
(***************************************************************************)
None == << >>

Some(v) == << v >>

IsNone(o) == Len(o) = 0

(***************************************************************************)
(* Text helpers (Python str methods used by the code).                     *)
(***************************************************************************)
DigitChars == <<"0", "1", "2", "3", "4", "5", "6", "7", "8", "9">>

IsDigit(c) == \E i \in 1..10 : DigitChars[i] = c

DigitVal(c) == (CHOOSE i \in 1..10 : DigitChars[i] = c) - 1

IsSpace(c) == c = " "

RECURSIVE LStrip(_)
LStrip(s) == IF s # << >> /\ IsSpace(Head(s)) THEN LStrip(Tail(s)) ELSE s

RECURSIVE RStrip(_)
RStrip(s) ==
    IF s # << >> /\ IsSpace(s[Len(s)]) THEN RStrip(SubSeq(s, 1, Len(s) - 1)) ELSE s

\* str.strip()
Strip(s) == RStrip(LStrip(s))

UpperChars == <<"A", "B", "C", "D", "E", "F", "G", "H", "I", "J", "K", "L", "M",
                "N", "O", "P", "Q", "R", "S", "T", "U", "V", "W", "X", "Y", "Z", "Ó", "Í", "Ñ">>

LowerChars == <<"a", "b", "c", "d", "e", "f", "g", "h", "i", "j", "k", "l", "m",
                "n", "o", "p", "q", "r", "s", "t", "u", "v", "w", "x", "y", "z", "ó", "í", "ñ">>

LowerChar(c) ==
    IF \E i \in 1..Len(UpperChars) : UpperChars[i] = c
    THEN LowerChars[CHOOSE i \in 1..Len(UpperChars) : UpperChars[i] = c]
    ELSE c

\* str.lower()
Lower(s) == [i \in 1..Len(s) |-> LowerChar(s[i])]

\* str.replace(old, new) for a one-character old and a new of length 0 or 1
RECURSIVE Replace(_, _, _)
Replace(s, old, new) ==
    IF s = << >> THEN << >>
    ELSE (IF Head(s) = old THEN new ELSE <<Head(s)>>) \o Replace(Tail(s), old, new)

\* str(n) for a natural number
RECURSIVE StrOfNat(_)
StrOfNat(n) ==
    IF n < 10 THEN <<DigitChars[n + 1]>>
    ELSE StrOfNat(n \div 10) \o <<DigitChars[(n % 10) + 1]>>

\* f"{n:02d}" for a natural number
Fmt02d(n) == IF n < 10 THEN <<"0">> \o StrOfNat(n) ELSE StrOfNat(n)

\* int(s) for a string of digits
RECURSIVE IntOfDigits(_)
IntOfDigits(s) ==
    IF s = << >> THEN 0
    ELSE 10 * IntOfDigits(SubSeq(s, 1, Len(s) - 1)) + DigitVal(s[Len(s)])

\* length of the longest prefix of s made of digits
RECURSIVE DigitRunLen(_)
DigitRunLen(s) ==
    IF s # << >> /\ IsDigit(Head(s)) THEN 1 + DigitRunLen(Tail(s)) ELSE 0

Min(a, b) == IF a < b THEN a ELSE b

\* text.split('-')[0]: the text before its first hyphen
BeforeHyphen(text) ==
    LET hyphens == {i \in 1..Len(text) : text[i] = "-"}
    IN  IF hyphens = {} THEN text
        ELSE SubSeq(text, 1, (CHOOSE i \in hyphens : \A j \in hyphens : i <= j) - 1)

\* int(text) of a text of digits, blanks and letters: None stands for
\* ValueError
int(text) ==
    LET t == Strip(text)
    IN  IF t # << >> /\ DigitRunLen(t) = Len(t) THEN Some(IntOfDigits(t)) ELSE None

(***************************************************************************)
(* Regular expressions of the form used by calculations.py: an anchored    *)
(* sequence of digit groups \d{lo,hi} (hi = -1 for \d+) and literal        *)
(* characters.  Every digit group is a capture group.                      *)
(***************************************************************************)
Digits(lo, hi) == [d |-> TRUE, lo |-> lo, hi |-> hi, ch |-> ""]

Lit(c) == [d |-> FALSE, lo |-> 0, hi |-> 0, ch |-> c]

\* re.match(pattern, s) with ^...$ : Some(groups) or None.  A digit group is
\* greedy and backtracks to shorter runs when the rest does not match.
RECURSIVE ReMatch(_, _)
ReMatch(pat, s) ==
    IF pat = << >> THEN (IF s = << >> THEN Some(<< >>) ELSE None)
    ELSE LET t == Head(pat) IN
         IF t.d
         THEN LET n  == DigitRunLen(s)
                  top == IF t.hi < 0 THEN n ELSE Min(n, t.hi)
                  ks == {k \in t.lo..top :
                            ~IsNone(ReMatch(Tail(pat), SubSeq(s, k + 1, Len(s))))}
              IN  IF ks = {} THEN None
                  ELSE LET k == CHOOSE x \in ks : \A y \in ks : y <= x
                       IN  Some(<<SubSeq(s, 1, k)>>
                                \o ReMatch(Tail(pat), SubSeq(s, k + 1, Len(s)))[1])
         ELSE IF s # << >> /\ Head(s) = t.ch
              THEN ReMatch(Tail(pat), Tail(s))
              ELSE None

\* calculations.py: the five patterns of parse_time_input, in order
TimePatterns ==
    << <<Digits(1, 2), Lit(":"), Digits(2, 2), Lit(":"), Digits(2, 2)>>,
       <<Digits(1, 2), Lit(":"), Digits(2, 2)>>,
       <<Digits(1, -1), Lit("."), Digits(2, 2), Lit("."), Digits(2, 2)>>,
       <<Digits(1, -1), Lit("h"), Digits(2, 2), Lit("m"), Digits(2, 2), Lit("s")>>,
       <<Digits(1, -1), Lit("h"), Digits(2, 2), Lit("m")>> >>

\* TimeFromGroups with the earlier defect: two fields read as hours:minutes
TimeFromGroups_HoursMinutes(groups) ==
    LET two   == Len(groups) = 2
        hours == IntOfDigits(groups[1])
        mins  == IntOfDigits(groups[2])
        secs  == IF two THEN 0 ELSE IntOfDigits(groups[3])
    IN  IF mins >= 60 \/ secs >= 60 THEN None
        ELSE Some(Fmt02d(hours) \o <<":">> \o Fmt02d(mins) \o <<":">> \o Fmt02d(secs))

\* the body of the loop of parse_time_input once a pattern has matched
TimeFromGroups(groups) ==
    LET two  == Len(groups) = 2
        m0   == IF two THEN IntOfDigits(groups[1]) ELSE IntOfDigits(groups[2])
        secs == IF two THEN IntOfDigits(groups[2]) ELSE IntOfDigits(groups[3])
        hours == IF two THEN (IF m0 >= 60 THEN m0 \div 60 ELSE 0)
                        ELSE IntOfDigits(groups[1])
        mins == IF two /\ m0 >= 60 THEN m0 % 60 ELSE m0
    IN  IF mins >= 60 \/ secs >= 60 THEN None
        ELSE Some(Fmt02d(hours) \o <<":">> \o Fmt02d(mins) \o <<":">> \o Fmt02d(secs))

\* calculations.py: parse_time_input
parse_time_input(input_str) ==
    IF input_str = << >> THEN None
    ELSE LET cleaned == Replace(Replace(Strip(input_str), "'", <<":">>), "\"", << >>)
             hits == {i \in 1..Len(TimePatterns) : ~IsNone(ReMatch(TimePatterns[i], cleaned))}
         IN  IF hits = {} THEN None
             ELSE LET first == CHOOSE i \in hits : \A j \in hits : i <= j
                  IN  TimeFromGroups(ReMatch(TimePatterns[first], cleaned)[1])

(***************************************************************************)
(* Karvonen training zones.                                                *)
(***************************************************************************)
\* largest power of two that is not above n, for n >= 1
RECURSIVE Pow2Le(_)
Pow2Le(n) == IF n < 2 THEN 1 ELSE 2 * Pow2Le(n \div 2)

\* RoundHalfEven with ties rounded up instead of to even
RoundHalfEven_HalfUp(num, den) ==
    LET q == num \div den
        r == num % den
    IN  IF 2 * r >= den THEN q + 1 ELSE q

\* Python round() of the exact rational num/den (num >= 0): half to even
RoundHalfEven(num, den) ==
    LET q == num \div den
        r == num % den
    IN  IF 2 * r > den THEN q + 1
        ELSE IF 2 * r < den THEN q
        ELSE IF q % 2 = 0 THEN q ELSE q + 1

\* round(resting_hr + (tenths/10) * hr_reserve) as IEEE-754 double arithmetic
\* computes it.  0.5 and 1.0 are exact; 0.6 and 0.8 never give a tie; the
\* double 0.9 is above 9/10 by 0.2 ulp and its product with an integer still
\* rounds to the exact tie.  The double 0.7 is below 7/10 by 0.4 ulp: for
\* hr_reserve = 5m (m odd) the exact tie n + 1/2 = 7m/2 becomes the double just
\* below it when 4m exceeds the largest power of two P <= 7m, and the sum with
\* resting_hr keeps that double when it stays in the same binade
\* (2 * resting_hr + 7m < 2P); round() then goes down instead of to even.
RoundZoneBound(resting_hr, hr_reserve, tenths) ==
    LET m == hr_reserve \div 5
        P == Pow2Le(7 * m)
    IN  IF tenths = 7 /\ hr_reserve % 10 = 5 /\ 4 * m > P /\ 2 * resting_hr + 7 * m < 2 * P
        THEN resting_hr + (7 * m - 1) \div 2
        ELSE RoundHalfEven(10 * resting_hr + tenths * hr_reserve, 10)

\* ZoneIntensities with zone 3 starting at 60% instead of 70%
ZoneIntensities_Zone3From60 == << <<5, 6>>, <<6, 7>>, <<6, 8>>, <<8, 9>>, <<9, 10>> >>

\* calculations.py: the zones table, intensities in tenths
ZoneIntensities == << <<5, 6>>, <<6, 7>>, <<7, 8>>, <<8, 9>>, <<9, 10>> >>

\* f"{min_hr}-{max_hr_zone}" for one zone
ZoneString(max_hr, resting_hr, zone_num) ==
    LET hr_reserve == max_hr - resting_hr
        min_hr == RoundZoneBound(resting_hr, hr_reserve, ZoneIntensities[zone_num][1])
        max_hr_zone == RoundZoneBound(resting_hr, hr_reserve, ZoneIntensities[zone_num][2])
    IN  StrOfNat(min_hr) \o <<"-">> \o StrOfNat(max_hr_zone)

\* calculations.py: calculate_training_zones
calculate_training_zones(max_hr, resting_hr) ==
    [zone1_hr |-> Some(ZoneString(max_hr, resting_hr, 1)),
     zone2_hr |-> Some(ZoneString(max_hr, resting_hr, 2)),
     zone3_hr |-> Some(ZoneString(max_hr, resting_hr, 3)),
     zone4_hr |-> Some(ZoneString(max_hr, resting_hr, 4)),
     zone5_hr |-> Some(ZoneString(max_hr, resting_hr, 5))]

(***************************************************************************)
(* Gender normalisation.                                                   *)
(***************************************************************************)
male_variations ==
    { <<"m">>, <<"m", "a", "l", "e">>,
      <<"m", "a", "s", "c", "u", "l", "i", "n", "o">>,
      <<"h", "o", "m", "b", "r", "e">>, <<"m", "a", "n">>,
      <<"v", "a", "r", "ó", "n">>, <<"v", "a", "r", "o", "n">> }

female_variations ==
    { <<"f">>, <<"f", "e", "m", "a", "l", "e">>,
      <<"f", "e", "m", "e", "n", "i", "n", "o">>,
      <<"m", "u", "j", "e", "r">>, <<"w", "o", "m", "a", "n">>,
      <<"f", "e", "m">> }

Masculino == <<"M", "a", "s", "c", "u", "l", "i", "n", "o">>

Femenino == <<"F", "e", "m", "e", "n", "i", "n", "o">>

Otro == <<"O", "t", "r", "o">>

\* calculations.py: normalize_gender_input
normalize_gender_input(input_str) ==
    IF input_str = << >> THEN << >>
    ELSE LET normalized_input == Lower(Strip(input_str))
         IN  IF normalized_input \in male_variations THEN Masculino
             ELSE IF normalized_input \in female_variations THEN Femenino
             ELSE Otro

(***************************************************************************)
(* models.py: AthleteProfile.  A dict is a function from its keys; opaque  *)
(* texts (names, dates, descriptions) are plain strings.                   *)
(***************************************************************************)
\* dict.get(k, default)
Get(d, k, default) == IF k \in DOMAIN d THEN d[k] ELSE default

EmptyDict == [k \in {} |-> None]

DefaultPhysioMeta == "physiological_metrics_meta default"

DefaultInjuryMeta == "injury_history_meta default"

\* models.py: TrainingZones()
EmptyZones ==
    [zone1_hr |-> None, zone2_hr |-> None, zone3_hr |-> None, zone4_hr |-> None,
     zone5_hr |-> None]

\* models.py: AthleteProfile() with every field at its default; now is the
\* value datetime.now() gives to generated_at
DefaultProfile(now) ==
    [name |-> "", generated_at |-> now,
     age |-> None, gender |-> << >>, height_cm |-> None, weight_kg |-> None,
     physiological_metrics_meta |-> DefaultPhysioMeta,
     max_hr |-> None, resting_hr |-> None, hrv_ms |-> None, vo2_max |-> None,
     lactate_threshold_bpm |-> None,
     injury_history_meta |-> DefaultInjuryMeta,
     injuries |-> << >>,
     avg_weekly_km |-> None, training_days_per_week |-> << >>,
     strength_training_history |-> FALSE, include_strength_training |-> FALSE,
     quality_session_preference |-> "",
     personal_bests |-> EmptyDict,
     training_zones |-> Some(EmptyZones),
     main_objective |-> None, intermediate_races |-> << >>]

PersonalBestKeys == {"5k", "10k", "half_marathon", "marathon"}

\* models.py: create_empty_profile
create_empty_profile(now) ==
    [DefaultProfile(now) EXCEPT !.personal_bests = [k \in PersonalBestKeys |-> None]]

RaceDict(race) ==
    [name |-> race.name, date |-> race.date, distance_km |-> race.distance_km,
     goal_time |-> race.goal_time, terrain |-> race.terrain]

InjuryDict(injury) ==
    [type |-> injury.type, date_approx |-> injury.date_approx,
     recovery_desc |-> injury.recovery_desc]

\* models.py: AthleteProfile.to_dict
to_dict(self) ==
    [athlete_summary |-> [name |-> self.name, generated_at |-> self.generated_at],
     personal_info |->
        [age |-> self.age, gender |-> self.gender, height_cm |-> self.height_cm,
         weight_kg |-> self.weight_kg],
     physiological_metrics |->
        [meta_description |-> self.physiological_metrics_meta,
         max_hr |-> self.max_hr, resting_hr |-> self.resting_hr, hrv_ms |-> self.hrv_ms,
         vo2_max |-> self.vo2_max, lactate_threshold_bpm |-> self.lactate_threshold_bpm],
     injury_history |->
        [meta_description |-> self.injury_history_meta,
         injuries |-> [i \in 1..Len(self.injuries) |-> InjuryDict(self.injuries[i])]],
     training_context |->
        [avg_weekly_km |-> self.avg_weekly_km,
         training_days_per_week |-> self.training_days_per_week,
         strength_training_history |-> self.strength_training_history,
         include_strength_training |-> self.include_strength_training,
         quality_session_preference |-> self.quality_session_preference],
     performance_data |->
        [personal_bests |-> self.personal_bests,
         training_zones |->
            IF self.training_zones # None
            THEN Some([zone1_hr |-> self.training_zones[1].zone1_hr,
                       zone2_hr |-> self.training_zones[1].zone2_hr,
                       zone3_hr |-> self.training_zones[1].zone3_hr,
                       zone4_hr |-> self.training_zones[1].zone4_hr,
                       zone5_hr |-> self.training_zones[1].zone5_hr])
            ELSE None],
     race_goals |->
        [main_objective |->
            IF self.main_objective # None THEN Some(RaceDict(self.main_objective[1]))
            ELSE None,
         intermediate_races |->
            [i \in 1..Len(self.intermediate_races) |-> RaceDict(self.intermediate_races[i])]]]

\* truth value of an optional dict: None and the empty dict are false
Truthy(optdict) == optdict # None /\ DOMAIN optdict[1] # {}

RaceFromDict(d) ==
    [name |-> Get(d, "name", ""), date |-> Get(d, "date", ""),
     distance_km |-> Get(d, "distance_km", 0), goal_time |-> Get(d, "goal_time", None),
     terrain |-> Get(d, "terrain", "")]

InjuryFromDict(d) ==
    [type |-> Get(d, "type", ""), date_approx |-> Get(d, "date_approx", ""),
     recovery_desc |-> Get(d, "recovery_desc", "")]

ZonesFromDict(d) ==
    [zone1_hr |-> Get(d, "zone1_hr", None), zone2_hr |-> Get(d, "zone2_hr", None),
     zone3_hr |-> Get(d, "zone3_hr", None), zone4_hr |-> Get(d, "zone4_hr", None),
     zone5_hr |-> Get(d, "zone5_hr", None)]

\* models.py: AthleteProfile.from_dict; now is the time of the call
from_dict(data, now) ==
    LET p0 == DefaultProfile(now)
        has(k) == k \in DOMAIN data
        summary == data.athlete_summary
        personal == data.personal_info
        physio == data.physiological_metrics
        training == data.training_context
        performance == data.performance_data
        goals == data.race_goals
        p1 == IF has("athlete_summary")
              THEN [p0 EXCEPT !.name = Get(summary, "name", ""),
                              !.generated_at = Get(summary, "generated_at", p0.generated_at)]
              ELSE p0
        p2 == IF has("personal_info")
              THEN [p1 EXCEPT !.age = Get(personal, "age", None),
                              !.gender = Get(personal, "gender", << >>),
                              !.height_cm = Get(personal, "height_cm", None),
                              !.weight_kg = Get(personal, "weight_kg", None)]
              ELSE p1
        p3 == IF has("physiological_metrics")
              THEN [p2 EXCEPT !.max_hr = Get(physio, "max_hr", None),
                              !.resting_hr = Get(physio, "resting_hr", None),
                              !.hrv_ms = Get(physio, "hrv_ms", None),
                              !.vo2_max = Get(physio, "vo2_max", None),
                              !.lactate_threshold_bpm = Get(physio, "lactate_threshold_bpm", None)]
              ELSE p2
        p4 == IF has("injury_history") /\ "injuries" \in DOMAIN data.injury_history
              THEN [p3 EXCEPT !.injuries =
                        [i \in 1..Len(data.injury_history.injuries) |->
                            InjuryFromDict(data.injury_history.injuries[i])]]
              ELSE p3
        p5 == IF has("training_context")
              THEN [p4 EXCEPT !.avg_weekly_km = Get(training, "avg_weekly_km", None),
                              !.training_days_per_week = Get(training, "training_days_per_week", << >>),
                              !.strength_training_history = Get(training, "strength_training_history", FALSE),
                              !.include_strength_training = Get(training, "include_strength_training", FALSE),
                              !.quality_session_preference = Get(training, "quality_session_preference", "")]
              ELSE p4
        p6 == IF has("performance_data")
              THEN [p5 EXCEPT !.personal_bests = Get(performance, "personal_bests", EmptyDict),
                              !.training_zones =
                                  IF "training_zones" \in DOMAIN performance
                                     /\ Truthy(performance.training_zones)
                                  THEN Some(ZonesFromDict(performance.training_zones[1]))
                                  ELSE p5.training_zones]
              ELSE p5
        p7 == IF has("race_goals")
              THEN [p6 EXCEPT !.main_objective =
                                  IF "main_objective" \in DOMAIN goals /\ Truthy(goals.main_objective)
                                  THEN Some(RaceFromDict(goals.main_objective[1]))
                                  ELSE p6.main_objective,
                              !.intermediate_races =
                                  IF "intermediate_races" \in DOMAIN goals
                                  THEN [i \in 1..Len(goals.intermediate_races) |->
                                           RaceFromDict(goals.intermediate_races[i])]
                                  ELSE p6.intermediate_races]
              ELSE p6
    IN  p7

\* is_complete with the spec's extra conditions on heart rate and volume
is_complete_NeedsHeartRate(self) ==
    /\ self.name # ""
    /\ self.age # None
    /\ self.gender # << >>
    /\ (self.max_hr # None \/ self.resting_hr # None)
    /\ (self.avg_weekly_km # None \/ self.training_days_per_week # << >>)
    /\ self.main_objective # None

\* is_complete with the main objective left out of the required fields
is_complete_NoObjective(self) ==
    /\ self.name # ""
    /\ self.age # None
    /\ self.gender # << >>

\* models.py: AthleteProfile.is_complete
is_complete(self) ==
    /\ self.name # ""
    /\ self.age # None
    /\ self.gender # << >>
    /\ self.main_objective # None

\* cli.py: profiles_are_different's view of a profile: the document without
\* athlete_summary.generated_at
StripGeneratedAt(d) ==
    [d EXCEPT !.athlete_summary = [k \in DOMAIN d.athlete_summary \ {"generated_at"} |->
                                       d.athlete_summary[k]]]

CanonicalDoc(p) == StripGeneratedAt(to_dict(p))

(***************************************************************************)
(* Body mass index.  The result is kept in tenths: 229 stands for 22.9.    *)
(***************************************************************************)
\* the heights of the model whose square in metres, (height_cm / 100) ** 2, is
\* exact in double arithmetic, and those for which it is rounded up
SquareExact == {200}

SquareRoundedUp == {160}

\* round(weight_kg / height_m ** 2, 1) in tenths.  Away from a tie the double
\* result is the nearest tenth.  At a tie (possible for even heights only) an
\* exact square gives the exact quotient, which round() takes to the even
\* tenth; a square rounded up gives a quotient below the tie
RoundBmi(weight_kg, height_cm) ==
    LET num == 100000 * weight_kg
        den == height_cm * height_cm
        q   == num \div den
        r   == num % den
    IN  IF 2 * r > den THEN q + 1
        ELSE IF 2 * r < den THEN q
        ELSE IF height_cm \in SquareRoundedUp THEN q
        ELSE IF q % 2 = 0 THEN q ELSE q + 1

\* calculate_bmi with a weight of zero let through
calculate_bmi_ZeroWeightAccepted(weight_kg, height_cm) ==
    IF weight_kg = None \/ height_cm = None THEN None
    ELSE IF height_cm[1] = 0 THEN None
    ELSE IF weight_kg[1] < 0 \/ height_cm[1] <= 0 THEN None
    ELSE Some(RoundBmi(weight_kg[1], height_cm[1]))

\* calculations.py: calculate_bmi; "not x" is true of None and of 0
calculate_bmi(weight_kg, height_cm) ==
    IF weight_kg = None \/ height_cm = None THEN None
    ELSE IF weight_kg[1] = 0 \/ height_cm[1] = 0 THEN None
    ELSE IF weight_kg[1] <= 0 \/ height_cm[1] <= 0 THEN None
    ELSE Some(RoundBmi(weight_kg[1], height_cm[1]))

(***************************************************************************)
(* training_period_validator.py: TrainingPeriodValidator.normalize_period. *)
(***************************************************************************)
\* the dictionaries in the order of their keys; a key written twice keeps its
\* first place
time_units_es ==
    <<[key |-> <<"d", "í", "a">>, unit |-> <<"d", "í", "a">>],
      [key |-> <<"d", "i", "a", "s">>, unit |-> <<"d", "í", "a", "s">>],
      [key |-> <<"d", "í", "a", "s">>, unit |-> <<"d", "í", "a", "s">>],
      [key |-> <<"d">>, unit |-> <<"d", "í", "a">>],
      [key |-> <<"D">>, unit |-> <<"d", "í", "a">>],
      [key |-> <<"s", "e", "m", "a", "n", "a">>, unit |-> <<"s", "e", "m", "a", "n", "a">>],
      [key |-> <<"s", "e", "m", "a", "n", "a", "s">>, unit |-> <<"s", "e", "m", "a", "n", "a", "s">>],
      [key |-> <<"s">>, unit |-> <<"s", "e", "m", "a", "n", "a">>],
      [key |-> <<"S">>, unit |-> <<"s", "e", "m", "a", "n", "a">>],
      [key |-> <<"m", "e", "s">>, unit |-> <<"m", "e", "s">>],
      [key |-> <<"m", "e", "s", "e", "s">>, unit |-> <<"m", "e", "s", "e", "s">>],
      [key |-> <<"m">>, unit |-> <<"m", "e", "s">>],
      [key |-> <<"M">>, unit |-> <<"m", "e", "s">>],
      [key |-> <<"a", "ñ", "o">>, unit |-> <<"a", "ñ", "o">>],
      [key |-> <<"a", "n", "o", "s">>, unit |-> <<"a", "ñ", "o", "s">>],
      [key |-> <<"a", "ñ", "o", "s">>, unit |-> <<"a", "ñ", "o", "s">>],
      [key |-> <<"a">>, unit |-> <<"a", "ñ", "o">>],
      [key |-> <<"A">>, unit |-> <<"a", "ñ", "o">>]>>

time_units_en ==
    <<[key |-> <<"d", "a", "y">>, unit |-> <<"d", "í", "a">>],
      [key |-> <<"d", "a", "y", "s">>, unit |-> <<"d", "í", "a", "s">>],
      [key |-> <<"w", "e", "e", "k">>, unit |-> <<"s", "e", "m", "a", "n", "a">>],
      [key |-> <<"w", "e", "e", "k", "s">>, unit |-> <<"s", "e", "m", "a", "n", "a", "s">>],
      [key |-> <<"w">>, unit |-> <<"s", "e", "m", "a", "n", "a">>],
      [key |-> <<"W">>, unit |-> <<"s", "e", "m", "a", "n", "a">>],
      [key |-> <<"m", "o", "n", "t", "h">>, unit |-> <<"m", "e", "s">>],
      [key |-> <<"m", "o", "n", "t", "h", "s">>, unit |-> <<"m", "e", "s", "e", "s">>],
      [key |-> <<"m", "o">>, unit |-> <<"m", "e", "s">>],
      [key |-> <<"M", "O">>, unit |-> <<"m", "e", "s">>],
      [key |-> <<"M", "o", "n">>, unit |-> <<"m", "e", "s">>],
      [key |-> <<"y", "e", "a", "r">>, unit |-> <<"a", "ñ", "o">>],
      [key |-> <<"y", "e", "a", "r", "s">>, unit |-> <<"a", "ñ", "o", "s">>],
      [key |-> <<"y">>, unit |-> <<"a", "ñ", "o">>],
      [key |-> <<"Y">>, unit |-> <<"a", "ñ", "o">>],
      [key |-> <<"y", "r">>, unit |-> <<"a", "ñ", "o">>],
      [key |-> <<"y", "r", "s">>, unit |-> <<"a", "ñ", "o", "s">>]>>

\* the class [a-zA-ZñÑ] of the unit pattern: no accented vowel is in it
IsUnitLetter(c) ==
    \/ \E i \in 1..26 : UpperChars[i] = c \/ LowerChars[i] = c
    \/ c \in {"ñ", "Ñ"}

\* s begins with prefix
StartsWith(s, prefix) == Len(prefix) <= Len(s) /\ SubSeq(s, 1, Len(prefix)) = prefix

\* word in text
Contains(text, word) ==
    \E i \in 1..(Len(text) - Len(word) + 1) : SubSeq(text, i, i + Len(word) - 1) = word

\* the length of the prefix of s that \d+(?:\.\d+)? matches, 0 when none
NumberLen(s) ==
    LET whole == DigitRunLen(s)
        frac  == IF whole > 0 /\ whole < Len(s) /\ s[whole + 1] = "."
                 THEN DigitRunLen(SubSeq(s, whole + 2, Len(s))) ELSE 0
    IN  IF whole = 0 THEN 0 ELSE IF frac > 0 THEN whole + 1 + frac ELSE whole

\* leading zeros dropped, one digit kept
RECURSIVE DropLeadingZeros(_)
DropLeadingZeros(s) == IF Len(s) > 1 /\ Head(s) = "0" THEN DropLeadingZeros(Tail(s)) ELSE s

\* trailing zeros dropped
RECURSIVE DropTrailingZeros(_)
DropTrailingZeros(s) ==
    IF s # << >> /\ s[Len(s)] = "0" THEN DropTrailingZeros(SubSeq(s, 1, Len(s) - 1)) ELSE s

\* the number as the f-string prints it: int(number_str) for digits, and for
\* a decimal the float, as an int when it is whole
FormatNumber(number_str) ==
    LET whole == DropLeadingZeros(SubSeq(number_str, 1, DigitRunLen(number_str)))
        frac  == DropTrailingZeros(SubSeq(number_str, DigitRunLen(number_str) + 2, Len(number_str)))
    IN  IF frac = << >> THEN whole ELSE whole \o <<".">> \o frac

\* number == 1
IsOne(number_str) == FormatNumber(number_str) = <<"1">>

\* the unit of the first entry of a dictionary, in key order, whose key is the
\* unit (exactly) or is a prefix of the unit or has the unit as a prefix
FirstEntry(table, unit, exactly) ==
    LET hits == {i \in 1..Len(table) :
                    IF exactly THEN table[i].key = unit
                    ELSE StartsWith(unit, table[i].key) \/ StartsWith(table[i].key, unit)}
    IN  IF hits = {} THEN None
        ELSE Some(table[CHOOSE i \in hits : \A j \in hits : i <= j].unit)

\* the lookup of a unit: the Spanish dictionary, the English one, then the
\* partial matches of the Spanish and of the English one
LookupUnit(unit) ==
    LET tries == <<FirstEntry(time_units_es, unit, TRUE), FirstEntry(time_units_en, unit, TRUE),
                   FirstEntry(time_units_es, unit, FALSE), FirstEntry(time_units_en, unit, FALSE)>>
        found == {i \in 1..4 : tries[i] # None}
    IN  IF found = {} THEN None ELSE tries[CHOOSE i \in found : \A j \in found : i <= j]

\* singular_map and plural_map
singular_map(unit) ==
    IF unit = <<"d", "í", "a", "s">> THEN <<"d", "í", "a">> ELSE IF unit = <<"s", "e", "m", "a", "n", "a", "s">> THEN <<"s", "e", "m", "a", "n", "a">>
    ELSE IF unit = <<"m", "e", "s", "e", "s">> THEN <<"m", "e", "s">> ELSE IF unit = <<"a", "ñ", "o", "s">> THEN <<"a", "ñ", "o">> ELSE unit

plural_map(unit) ==
    IF unit = <<"d", "í", "a">> THEN <<"d", "í", "a", "s">> ELSE IF unit = <<"s", "e", "m", "a", "n", "a">> THEN <<"s", "e", "m", "a", "n", "a", "s">>
    ELSE IF unit = <<"m", "e", "s">> THEN <<"m", "e", "s", "e", "s">> ELSE IF unit = <<"a", "ñ", "o">> THEN <<"a", "ñ", "o", "s">> ELSE unit

EmpezandoAhora == <<"E", "m", "p", "e", "z", "a", "n", "d", "o", " ", "a", "h", "o", "r", "a">>

StartingWords == {<<"e", "m", "p", "e", "z", "a", "n", "d", "o">>, <<"s", "t", "a", "r", "t", "i", "n", "g">>, <<"c", "o", "m", "e", "n", "z", "a", "n", "d", "o">>}

\* training_period_validator.py: normalize_period
normalize_period(text) ==
    LET t    == Strip(Lower(text))
        n    == NumberLen(t)
        unit == LStrip(SubSeq(t, n + 1, Len(t)))
        number_str == SubSeq(t, 1, n)
    IN  IF \E word \in StartingWords : Contains(t, word) THEN Some(EmpezandoAhora)
        ELSE IF n > 0 /\ unit # << >> /\ \A i \in 1..Len(unit) : IsUnitLetter(unit[i])
        THEN LET normalized_unit == LookupUnit(unit)
             IN  IF normalized_unit = None THEN None
                 ELSE Some(FormatNumber(number_str) \o <<" ">>
                           \o (IF IsOne(number_str) THEN singular_map(normalized_unit[1])
                               ELSE plural_map(normalized_unit[1])))
        ELSE IF n > 0 /\ n = Len(t)
        THEN Some(FormatNumber(number_str) \o <<" ">> \o (IF IsOne(number_str) THEN <<"m", "e", "s">> ELSE <<"m", "e", "s", "e", "s">>))
        ELSE None

(***************************************************************************)
(* Inputs of the pure functions.                                           *)
(***************************************************************************)
MaxField == 99

MaxResting == 45

MaxReserve == 150

MaxGenderLen == 3

\* the decimal digits of n, left-padded with zeros to width w
Pad(n, w) == IF Len(StrOfNat(n)) < w THEN <<"0">> \o StrOfNat(n) ELSE StrOfNat(n)

FieldStrings == {Pad(n, w) : n \in 0..MaxField, w \in 1..2}

\* separator and suffix of the two-field forms  A:B  A'B  A.B  AhBm
TwoFieldForms == { <<":", << >> >>, <<"'", << >> >>, <<".", << >> >>, <<"h", <<"m">> >> }

TwoFieldInputs ==
    {a \o <<f[1]>> \o b \o f[2] : a \in FieldStrings, b \in FieldStrings, f \in TwoFieldForms}

ThreeFieldValues == {0, 1, 25, 59, 60, MaxField + 1}

\* separators and suffix of the three-field forms  H:MM:SS  H.MM.SS  HhMMmSSs
ThreeFieldForms == { <<":", ":", << >> >>, <<".", ".", << >> >>, <<"h", "m", <<"s">> >> }

ThreeFieldInputs ==
    {Pad(a, 1) \o <<f[1]>> \o Pad(b, 2) \o <<f[2]>> \o Pad(c, 2) \o f[3] :
        a \in ThreeFieldValues, b \in ThreeFieldValues, c \in ThreeFieldValues,
        f \in ThreeFieldForms}

OtherTimeInputs ==
    { << >>, <<" ">>, <<"1", "8">>, <<" ", "1", "8", ":", "3", "0", " ">>,
      <<"1", "8", ":", "3", "0", "\"">>, <<"1", ":", "2", ":", "3">>,
      <<"a", ":", "3", "0">> }

TimeInputs == TwoFieldInputs \cup ThreeFieldInputs \cup OtherTimeInputs

ZoneInputs == {<<r + d, r>> : r \in 0..MaxResting, d \in 1..MaxReserve}

MaxWeight == 100

BmiHeights == {-1, 0, 175, 180} \cup SquareExact \cup SquareRoundedUp

BmiInputs ==
    {<<w, h>> : w \in {None} \cup {Some(n) : n \in -1..MaxWeight},
                h \in {None} \cup {Some(n) : n \in BmiHeights}}

MaxPeriod == 3

\* str.upper() of a unit token
UpperChar(c) ==
    IF \E i \in 1..Len(LowerChars) : LowerChars[i] = c
    THEN UpperChars[CHOOSE i \in 1..Len(LowerChars) : LowerChars[i] = c]
    ELSE c

Upper(s) == [i \in 1..Len(s) |-> UpperChar(s[i])]

\* a token in lower case, in upper case and capitalised
CaseForms(token) == {token, Upper(token), <<UpperChar(Head(token))>> \o Tail(token)}

\* the unit tokens that normalize_period documents, each with the Spanish
\* singular and plural it stands for
DocumentedUnits ==
    {[token |-> <<"d", "í", "a">>, singular |-> <<"d", "í", "a">>, plural |-> <<"d", "í", "a", "s">>],
     [token |-> <<"d", "í", "a", "s">>, singular |-> <<"d", "í", "a">>, plural |-> <<"d", "í", "a", "s">>],
     [token |-> <<"d", "i", "a">>, singular |-> <<"d", "í", "a">>, plural |-> <<"d", "í", "a", "s">>],
     [token |-> <<"d", "i", "a", "s">>, singular |-> <<"d", "í", "a">>, plural |-> <<"d", "í", "a", "s">>],
     [token |-> <<"d">>, singular |-> <<"d", "í", "a">>, plural |-> <<"d", "í", "a", "s">>],
     [token |-> <<"d", "a", "y">>, singular |-> <<"d", "í", "a">>, plural |-> <<"d", "í", "a", "s">>],
     [token |-> <<"d", "a", "y", "s">>, singular |-> <<"d", "í", "a">>, plural |-> <<"d", "í", "a", "s">>],
     [token |-> <<"s", "e", "m", "a", "n", "a">>, singular |-> <<"s", "e", "m", "a", "n", "a">>, plural |-> <<"s", "e", "m", "a", "n", "a", "s">>],
     [token |-> <<"s", "e", "m", "a", "n", "a", "s">>, singular |-> <<"s", "e", "m", "a", "n", "a">>, plural |-> <<"s", "e", "m", "a", "n", "a", "s">>],
     [token |-> <<"s">>, singular |-> <<"s", "e", "m", "a", "n", "a">>, plural |-> <<"s", "e", "m", "a", "n", "a", "s">>],
     [token |-> <<"w", "e", "e", "k">>, singular |-> <<"s", "e", "m", "a", "n", "a">>, plural |-> <<"s", "e", "m", "a", "n", "a", "s">>],
     [token |-> <<"w", "e", "e", "k", "s">>, singular |-> <<"s", "e", "m", "a", "n", "a">>, plural |-> <<"s", "e", "m", "a", "n", "a", "s">>],
     [token |-> <<"w">>, singular |-> <<"s", "e", "m", "a", "n", "a">>, plural |-> <<"s", "e", "m", "a", "n", "a", "s">>],
     [token |-> <<"m", "e", "s">>, singular |-> <<"m", "e", "s">>, plural |-> <<"m", "e", "s", "e", "s">>],
     [token |-> <<"m", "e", "s", "e", "s">>, singular |-> <<"m", "e", "s">>, plural |-> <<"m", "e", "s", "e", "s">>],
     [token |-> <<"m">>, singular |-> <<"m", "e", "s">>, plural |-> <<"m", "e", "s", "e", "s">>],
     [token |-> <<"m", "o", "n", "t", "h">>, singular |-> <<"m", "e", "s">>, plural |-> <<"m", "e", "s", "e", "s">>],
     [token |-> <<"m", "o", "n", "t", "h", "s">>, singular |-> <<"m", "e", "s">>, plural |-> <<"m", "e", "s", "e", "s">>],
     [token |-> <<"m", "o">>, singular |-> <<"m", "e", "s">>, plural |-> <<"m", "e", "s", "e", "s">>],
     [token |-> <<"a", "ñ", "o">>, singular |-> <<"a", "ñ", "o">>, plural |-> <<"a", "ñ", "o", "s">>],
     [token |-> <<"a", "ñ", "o", "s">>, singular |-> <<"a", "ñ", "o">>, plural |-> <<"a", "ñ", "o", "s">>],
     [token |-> <<"a">>, singular |-> <<"a", "ñ", "o">>, plural |-> <<"a", "ñ", "o", "s">>],
     [token |-> <<"y", "e", "a", "r">>, singular |-> <<"a", "ñ", "o">>, plural |-> <<"a", "ñ", "o", "s">>],
     [token |-> <<"y", "e", "a", "r", "s">>, singular |-> <<"a", "ñ", "o">>, plural |-> <<"a", "ñ", "o", "s">>],
     [token |-> <<"y">>, singular |-> <<"a", "ñ", "o">>, plural |-> <<"a", "ñ", "o", "s">>]}

PeriodNumbers ==
    {StrOfNat(n) : n \in 0..MaxPeriod}
    \cup {<<"1", ".", "0">>, <<"2", ".", "5">>, <<"0", "1">>}

PeriodInputs ==
    {number \o sep \o form :
        number \in PeriodNumbers, sep \in {<< >>, <<" ">>},
        form \in UNION {CaseForms(u.token) : u \in DocumentedUnits}}
    \cup PeriodNumbers
    \cup {<<"e", "m", "p", "e", "z", "a", "n", "d", "o">>,
          <<"S", "t", "a", "r", "t", "i", "n", "g">>,
          <<"C", "O", "M", "E", "N", "Z", "A", "N", "D", "O">>,
          <<"0", " ", "-", " ", "e", "m", "p", "e", "z", "a", "n", "d", "o">>,
          <<"e", "m", "p", "e", "z", "a", "n", "d", "o", " ", "y", "a">>,
          <<"3", " ", "x">>,
          <<"2", " ", "d", "o", "g", "s">>,
          <<"3", " ", "s", "e", "m">>,
          <<"2", " ", "m", "i">>,
          <<"m", "e", "s", "e", "s">>,
          << >>,
          <<" ", "3", " ", "m", "e", "s", "e", "s", " ">>,
          <<"3", " ", "y", "r", "s">>,
          <<"3", " ", "m", "o", "n">>}

GenderAlphabet == {"m", "M", "f", "F", " ", "e", "x"}

RECURSIVE StringsUpTo(_, _)
StringsUpTo(alphabet, n) ==
    IF n = 0 THEN {<< >>}
    ELSE LET shorter == StringsUpTo(alphabet, n - 1)
         IN  shorter \cup {Append(s, c) : s \in {t \in shorter : Len(t) = n - 1}, c \in alphabet}

GenderWords ==
    male_variations \cup female_variations
    \cup { <<"H", "O", "M", "B", "R", "E">>, <<" ", "M", "u", "j", "e", "r", " ">>,
           <<"V", "A", "R", "Ó", "N">>, <<"o", "t", "r", "o">>, <<"x", "y", "z">>,
           <<"n", "o", " ", "b", "i", "n", "a", "r", "i", "o">> }

GenderInputs == StringsUpTo(GenderAlphabet, MaxGenderLen) \cup GenderWords

(***************************************************************************)
(* The pure functions as a state machine: a call is chosen with its        *)
(* argument, then the function returns.                                    *)
(***************************************************************************)
ModelIdle ==
    /\ profile = create_empty_profile(0)
    /\ doc = None /\ copy = None
    /\ complete = None /\ completeBefore = None
    /\ mpc = "idle"

CalcIdle == fn = "none" /\ arg = None /\ res = None /\ pc = "idle"

PlanIdle ==
    /\ apiKey = "missing" /\ requests = 0
    /\ response = None /\ planResult = None
    /\ ppc = "idle"

CoherenceIdle ==
    /\ available_training_days = << >> /\ unavailable_days = << >>
    /\ unavailable_days_input = << >> /\ validation_errors = << >>
    /\ dayCountRule = "low" /\ cpc = "idle"

MissingFile == [kind |-> "missing", doc |-> None]

PersistIdle ==
    /\ file = MissingFile /\ fileBefore = MissingFile
    /\ persistResult = None /\ fpc = "idle"

SessionIdle ==
    /\ baseline = None /\ sectionEntry = None
    /\ lastSection = [section |-> 0, interrupted |-> FALSE]
    /\ explicitSave = FALSE /\ edits = 0 /\ mode = "none" /\ spc = "idle"

OptimizerIdle == clock = 0 /\ aiCalls = << >> /\ opc = "idle"

InitCalc ==
    /\ ModelIdle /\ PlanIdle /\ CoherenceIdle /\ PersistIdle /\ SessionIdle
    /\ OptimizerIdle
    /\ pc = "called"
    /\ res = None
    /\ \/ fn = "parse_time_input" /\ arg \in TimeInputs
       \/ fn = "calculate_training_zones" /\ arg \in ZoneInputs
       \/ fn = "normalize_gender_input" /\ arg \in GenderInputs
       \/ fn = "calculate_bmi" /\ arg \in BmiInputs
       \/ fn = "normalize_period" /\ arg \in PeriodInputs

ReturnParseTime ==
    /\ pc = "called" /\ fn = "parse_time_input"
    /\ res' = parse_time_input(arg)
    /\ pc' = "returned"
    /\ UNCHANGED <<fn, arg>>
    /\ UNCHANGED OtherThanCalc

ReturnTrainingZones ==
    /\ pc = "called" /\ fn = "calculate_training_zones"
    /\ res' = calculate_training_zones(arg[1], arg[2])
    /\ pc' = "returned"
    /\ UNCHANGED <<fn, arg>>
    /\ UNCHANGED OtherThanCalc

ReturnNormalizeGender ==
    /\ pc = "called" /\ fn = "normalize_gender_input"
    /\ res' = normalize_gender_input(arg)
    /\ pc' = "returned"
    /\ UNCHANGED <<fn, arg>>
    /\ UNCHANGED OtherThanCalc

ReturnBmi ==
    /\ pc = "called" /\ fn = "calculate_bmi"
    /\ res' = calculate_bmi(arg[1], arg[2])
    /\ pc' = "returned"
    /\ UNCHANGED <<fn, arg>>
    /\ UNCHANGED OtherThanCalc

ReturnNormalizePeriod ==
    /\ pc = "called" /\ fn = "normalize_period"
    /\ res' = normalize_period(arg)
    /\ pc' = "returned"
    /\ UNCHANGED <<fn, arg>>
    /\ UNCHANGED OtherThanCalc

NextCalc ==
    \/ ReturnParseTime
    \/ ReturnTrainingZones
    \/ ReturnNormalizeGender
    \/ ReturnBmi
    \/ ReturnNormalizePeriod

SpecCalc == InitCalc /\ [][NextCalc]_vars

(***************************************************************************)
(* The profile object as a state machine: a profile is constructed, then   *)
(* either serialised and read back, or asked whether it is complete before *)
(* and after its main objective is set.                                    *)
(***************************************************************************)
MaxTime == 1

Times == 0..MaxTime

SampleRaceA ==
    [name |-> "Media Maraton de Valencia", date |-> "2027-11-30", distance_km |-> 21,
     goal_time |-> Some(<<"0", "1", ":", "2", "8", ":", "0", "0">>), terrain |-> "Llano"]

SampleRaceB ==
    [name |-> "10k de la Ciudad", date |-> "2027-10-15", distance_km |-> 10,
     goal_time |-> None, terrain |-> "Mixto"]

SampleInjury ==
    [type |-> "Fascitis Plantar", date_approx |-> "2022-10", recovery_desc |-> "reposo"]

SamplePersonalBests ==
    [k \in PersonalBestKeys |->
        IF k = "5k" THEN Some(<<"0", "0", ":", "1", "8", ":", "0", "0">>) ELSE None]

\* the optional numeric and text fields that no claim singles out are either
\* all unset or all set
ExtrasUnset ==
    [height_cm |-> None, weight_kg |-> None, hrv_ms |-> None, vo2_max |-> None,
     lactate_threshold_bpm |-> None, strength |-> FALSE, quality |-> ""]

ExtrasSet ==
    [height_cm |-> Some(180), weight_kg |-> Some(67), hrv_ms |-> Some(45), vo2_max |-> Some(60),
     lactate_threshold_bpm |-> Some(179), strength |-> TRUE, quality |-> "Martes, Jueves"]

MetasDefault == [physio |-> DefaultPhysioMeta, injury |-> DefaultInjuryMeta]

MetasCustom == [physio |-> "physio meta edited", injury |-> "injury meta edited"]

Profiles ==
    { [name |-> n, generated_at |-> 0,
       age |-> a, gender |-> g, height_cm |-> x.height_cm, weight_kg |-> x.weight_kg,
       physiological_metrics_meta |-> mt.physio,
       max_hr |-> mh, resting_hr |-> rh, hrv_ms |-> x.hrv_ms, vo2_max |-> x.vo2_max,
       lactate_threshold_bpm |-> x.lactate_threshold_bpm,
       injury_history_meta |-> mt.injury,
       injuries |-> inj,
       avg_weekly_km |-> km, training_days_per_week |-> days,
       strength_training_history |-> x.strength, include_strength_training |-> x.strength,
       quality_session_preference |-> x.quality,
       personal_bests |-> pb,
       training_zones |-> tz,
       main_objective |-> mo, intermediate_races |-> ir] :
         n \in {"", "Ana"}, a \in {None, Some(30)}, g \in {<< >>, Femenino},
         x \in {ExtrasUnset, ExtrasSet}, mt \in {MetasDefault, MetasCustom},
         mh \in {None, Some(184)}, rh \in {None, Some(41)},
         inj \in {<< >>, <<SampleInjury>>},
         km \in {None, Some(50)}, days \in {<< >>, <<"4", "-", "5">>},
         pb \in {EmptyDict, [k \in PersonalBestKeys |-> None], SamplePersonalBests},
         tz \in {None, Some(EmptyZones), Some(calculate_training_zones(184, 41))},
         mo \in {None, Some(SampleRaceA)},
         ir \in {<< >>, <<SampleRaceB>>} }

InitModel ==
    /\ CalcIdle /\ PlanIdle /\ CoherenceIdle /\ PersistIdle /\ SessionIdle
    /\ OptimizerIdle
    /\ profile \in Profiles
    /\ doc = None /\ copy = None
    /\ complete = None /\ completeBefore = None
    /\ mpc = "new"

\* models.py: document = profile.to_dict()
ToDict ==
    /\ mpc = "new"
    /\ doc' = Some(to_dict(profile))
    /\ mpc' = "serialized"
    /\ UNCHANGED <<profile, copy, complete, completeBefore>>
    /\ UNCHANGED OtherThanModel

\* models.py: AthleteProfile.from_dict(document), called at time now
FromDict ==
    /\ mpc = "serialized"
    /\ \E now \in Times : copy' = Some(from_dict(doc[1], now))
    /\ mpc' = "loaded"
    /\ UNCHANGED <<profile, doc, complete, completeBefore>>
    /\ UNCHANGED OtherThanModel

\* models.py: profile.is_complete()
IsComplete ==
    /\ mpc \in {"new", "objective_set"}
    /\ complete' = Some(is_complete(profile))
    /\ mpc' = IF mpc = "new" THEN "checked" ELSE "checked_again"
    /\ UNCHANGED <<profile, doc, copy, completeBefore>>
    /\ UNCHANGED OtherThanModel

\* cli.py: profile.main_objective = Race(...)
SetMainObjective ==
    /\ mpc = "checked"
    /\ \E race \in {SampleRaceA, SampleRaceB} :
          profile' = [profile EXCEPT !.main_objective = Some(race)]
    /\ completeBefore' = complete
    /\ complete' = None
    /\ mpc' = "objective_set"
    /\ UNCHANGED <<doc, copy>>
    /\ UNCHANGED OtherThanModel

NextModel == ToDict \/ FromDict \/ IsComplete \/ SetMainObjective

SpecModel == InitModel /\ [][NextModel]_vars

(***************************************************************************)
(* Properties of the profile object (checked under SpecModel).             *)
(***************************************************************************)
\* C5 as stated: for every profile P, one with training_zones None included,
\* from_dict(to_dict(P)) has the same canonical document as P once
\* generated_at is removed from both.
C5_RoundTripLossless ==
    mpc = "loaded" => CanonicalDoc(copy[1]) = CanonicalDoc(profile)

Present(opt) == IF opt = None THEN FALSE ELSE TRUE

\* C6 as stated: is_complete() is True iff name, age and gender are present,
\* one of max_hr and resting_hr is present, one of avg_weekly_km and
\* training_days_per_week is present, and main_objective is present.
C6_Original ==
    complete # None =>
        (complete[1] <=>
            /\ profile.name # "" /\ Present(profile.age) /\ profile.gender # << >>
            /\ (Present(profile.max_hr) \/ Present(profile.resting_hr))
            /\ (Present(profile.avg_weekly_km) \/ profile.training_days_per_week # << >>)
            /\ Present(profile.main_objective))

\* C6 amended: is_complete() is True iff name, age, gender and main_objective
\* are all present; the heart rates and the training volume are not consulted.
C6_CompleteIffFourFields ==
    complete # None =>
        (complete[1] <=>
            (profile.name # "" /\ Present(profile.age) /\ profile.gender # << >>
             /\ Present(profile.main_objective)))

\* is_complete() returned True for a profile with no heart rate and no volume
C6_Witness ==
    /\ complete = Some(TRUE)
    /\ ~Present(profile.max_hr) /\ ~Present(profile.resting_hr)
    /\ ~Present(profile.avg_weekly_km) /\ profile.training_days_per_week = << >>

\* C7: a profile without main_objective is never complete, and setting a
\* main_objective on a profile that has name, age, gender and avg_weekly_km
\* makes is_complete() return True.
C7_ObjectiveGatesCompleteness ==
    complete # None =>
        /\ ~Present(profile.main_objective) => complete[1] = FALSE
        /\ (mpc = "checked_again" /\ profile.name # "" /\ Present(profile.age)
            /\ profile.gender # << >> /\ Present(profile.avg_weekly_km)) => complete[1] = TRUE

\* is_complete() was False, the main objective was set, and it is True; the
\* profile has a weekly volume and no heart rate
C7_Witness ==
    /\ mpc = "checked_again"
    /\ completeBefore = Some(FALSE) /\ complete = Some(TRUE)
    /\ Present(profile.avg_weekly_km)
    /\ ~Present(profile.max_hr) /\ ~Present(profile.resting_hr)

(***************************************************************************)
(* ai_interface.py: one call of generate_training_plan(profile).           *)
(*                                                                         *)
(* The text of a response is an optional opening code fence (tagged json   *)
(* or untagged), a body and an optional closing fence.  A body is either not JSON or a JSON value; of  *)
(* an object only what the validation reads is kept: the type of           *)
(* plan_markdown and of plan_structured and, when the latter is an array,  *)
(* its elements.  Of an element the model keeps its JSON type and the set  *)
(* of required names k for which the Python test "k in item" is true: the  *)
(* keys of an object, the members of an array, the substrings of a string. *)
(***************************************************************************)
MaxItems == 2

RequiredItemKeys == {"week", "day_of_week", "day_description", "session_type", "details"}

ItemHas == {RequiredItemKeys, RequiredItemKeys \ {"details"}}

Items ==
    {[t |-> ty, has |-> h] : ty \in {"object", "string", "array"}, h \in ItemHas}
    \cup {[t |-> ty, has |-> {}] : ty \in {"number", "null"}}

RECURSIVE SeqsUpTo(_, _)
SeqsUpTo(S, n) ==
    IF n = 0 THEN {<< >>}
    ELSE LET shorter == SeqsUpTo(S, n - 1)
         IN  shorter \cup {Append(q, x) : q \in {t \in shorter : Len(t) = n - 1}, x \in S}

ObjectBodies ==
    {[kind |-> "object", md |-> m, st |-> "array", items |-> it] :
        m \in {"absent", "string", "number"}, it \in SeqsUpTo(Items, MaxItems)}
    \cup {[kind |-> "object", md |-> m, st |-> t, items |-> << >>] :
        m \in {"absent", "string", "number"}, t \in {"absent", "string", "null"}}

OtherBodies ==
    {[kind |-> k, md |-> "absent", st |-> "absent", items |-> << >>] :
        k \in {"not_json", "array", "string", "number"}}

Responses ==
    {[text |-> "ok", fenceStart |-> fs, fenceEnd |-> fe, body |-> b] :
        fs \in {"none", "fence_json", "fence"}, fe \in {"none", "fence"}, b \in ObjectBodies \cup OtherBodies}
    \cup {[text |-> "raises", fenceStart |-> "none", fenceEnd |-> "none",
           body |-> [kind |-> "not_json", md |-> "absent", st |-> "absent", items |-> << >>]]}

\* _configure_gemini that takes a missing key for a configured one
configure_gemini_MissingKey(key) == key # "configure_raises"

\* ai_interface.py: _configure_gemini; only a found key that genai.configure
\* accepts gives True (a configure error returns None)
configure_gemini(key) == key = "valid"

\* the cleaned text loads as JSON: an opening fence tagged json and a closing
\* fence are cut, an untagged opening fence is not
JsonLoads(r) == r.body.kind # "not_json" /\ r.fenceStart # "fence"

\* the loop over plan_structured: a number or null raises TypeError at
\* "k in item", an element without all required names raises ValueError
ItemsAccepted(items) ==
    \A i \in 1..Len(items) :
        /\ items[i].t \notin {"number", "null"}
        /\ RequiredItemKeys \subseteq items[i].has

\* ai_interface.py: the try block of generate_training_plan after the request:
\* the plan, or None on any exception
ParsePlan(r) ==
    IF r.text = "raises" THEN None
    ELSE IF ~JsonLoads(r) THEN None
    ELSE IF r.body.kind # "object" THEN None
    ELSE IF r.body.md = "absent" \/ r.body.st = "absent" THEN None
    ELSE IF r.body.md # "string" THEN None
    ELSE IF r.body.st # "array" THEN None
    ELSE IF ~ItemsAccepted(r.body.items) THEN None
    ELSE Some(r.body)

PlanProfiles ==
    { [create_empty_profile(0) EXCEPT !.name = n, !.age = a, !.gender = g,
                                      !.avg_weekly_km = km, !.main_objective = mo,
                                      !.training_days_per_week = days] :
        n \in {"", "Ana"}, a \in {None, Some(30)}, g \in {<< >>, Femenino},
        km \in {None, Some(50)}, mo \in {None, Some(SampleRaceA)},
        days \in {<< >>, <<"L", "u", "n", "e", "s">>} }

\* ai_interface.py: _build_prompt_for_gemini raises: optimize_profile_for_ai
\* passes on the ValueError of int() in _identify_special_considerations
PromptRaises(p) ==
    /\ p.training_days_per_week # << >>
    /\ int(BeforeHyphen(p.training_days_per_week)) = None

InitPlan ==
    /\ CalcIdle /\ CoherenceIdle /\ PersistIdle /\ SessionIdle /\ OptimizerIdle
    /\ doc = None /\ copy = None /\ complete = None /\ completeBefore = None /\ mpc = "idle"
    /\ profile \in PlanProfiles
    /\ apiKey \in {"missing", "configure_raises", "valid"}
    /\ requests = 0
    /\ response = None /\ planResult = None
    /\ ppc = "called"

\* generate_training_plan: "if not _configure_gemini(): return None"
ConfigureFails ==
    /\ ppc = "called"
    /\ ~configure_gemini(apiKey)
    /\ planResult' = None
    /\ ppc' = "returned"
    /\ UNCHANGED <<profile, apiKey, requests, response>>
    /\ UNCHANGED OtherThanPlan

\* generate_training_plan: the key is configured, the prompt and the model
\* object are built
Configure ==
    /\ ppc = "called"
    /\ configure_gemini(apiKey)
    /\ ~PromptRaises(profile)
    /\ ppc' = "configured"
    /\ UNCHANGED <<profile, apiKey, requests, response, planResult>>
    /\ UNCHANGED OtherThanPlan

\* generate_training_plan: the key is configured and _build_prompt_for_gemini,
\* called outside the try block, raises; nothing is returned
BuildPromptRaises ==
    /\ ppc = "called"
    /\ configure_gemini(apiKey)
    /\ PromptRaises(profile)
    /\ ppc' = "raised"
    /\ UNCHANGED <<profile, apiKey, requests, response, planResult>>
    /\ UNCHANGED OtherThanPlan

\* generate_training_plan: model.generate_content(prompt_text) raises
RequestRaises ==
    /\ ppc = "configured"
    /\ requests' = requests + 1
    /\ planResult' = None
    /\ ppc' = "returned"
    /\ UNCHANGED <<profile, apiKey, response>>
    /\ UNCHANGED OtherThanPlan

\* generate_training_plan: model.generate_content(prompt_text) returns
RequestAnswered ==
    /\ ppc = "configured"
    /\ requests' = requests + 1
    /\ \E r \in Responses : response' = Some(r)
    /\ ppc' = "received"
    /\ UNCHANGED <<profile, apiKey, planResult>>
    /\ UNCHANGED OtherThanPlan

\* generate_training_plan: the response is cleaned, parsed and validated
ValidateResponse ==
    /\ ppc = "received"
    /\ planResult' = ParsePlan(response[1])
    /\ ppc' = "returned"
    /\ UNCHANGED <<profile, apiKey, requests, response>>
    /\ UNCHANGED OtherThanPlan

NextPlan ==
    \/ ConfigureFails
    \/ Configure
    \/ BuildPromptRaises
    \/ RequestRaises
    \/ RequestAnswered
    \/ ValidateResponse

SpecPlan == InitPlan /\ [][NextPlan]_vars

(***************************************************************************)
(* Properties of the plan request (checked under SpecPlan).                *)
(***************************************************************************)
\* C8 as stated: generate_training_plan never calls the external model for a
\* profile whose is_complete() is False.
C8_NoRequestForIncompleteProfile ==
    requests > 0 => is_complete(profile)

\* an element is a JSON object with the five required fields
IsDayObject(item) == item.t = "object" /\ RequiredItemKeys \subseteq item.has

\* the response text parses to an object with plan_markdown a string,
\* plan_structured an array, and every element a day object
IsValidPlanResponse(r) ==
    /\ r.text = "ok"
    /\ JsonLoads(r)
    /\ r.body.kind = "object"
    /\ r.body.md = "string"
    /\ r.body.st = "array"
    /\ \A i \in 1..Len(r.body.items) : IsDayObject(r.body.items[i])

\* C9 as stated: generate_training_plan returns the plan only when the
\* response parses to a JSON object with plan_markdown a string,
\* plan_structured a list and every element of it having week, day_of_week,
\* day_description, session_type and details; in every other case it returns
\* None.
C9_PlanOnlyFromValidResponse ==
    (ppc = "returned" /\ planResult # None) =>
        (response # None /\ IsValidPlanResponse(response[1]))

(***************************************************************************)
(* cli.py: the available-days and unavailable-days prompts of              *)
(* prompt_training_context.                                                *)
(*                                                                         *)
(* cli.py reads and writes profile.available_training_days and             *)
(* profile.unavailable_days, calls parse_unavailable_days_input and calls  *)
(* profile._validate_training_days_coherence(); models.py and              *)
(* calculations.py do not contain these.  The prompts, the validator and   *)
(* parse_training_days_input are modelled from the code; the two fields,   *)
(* the unavailable-days parser and the coherence check are modelled from   *)
(* the specification document (sections 3, 4.1, 4.2 and 8).  The           *)
(* specification does not say how a range of days such as 3-4 is counted:  *)
(* dayCountRule is fixed at the start to its low or to its high end.       *)
(***************************************************************************)
DaysInWeek == 7

MaxTokens == 3

\* re.match(r'^(\d+)\s*[-a]\s*(\d+)$', cleaned): the two groups, or None
RangePatternMatch(cleaned) ==
    LET n1 == DigitRunLen(cleaned)
        r1 == LStrip(SubSeq(cleaned, n1 + 1, Len(cleaned)))
        r2 == LStrip(Tail(r1))
    IN  IF /\ n1 >= 1
           /\ r1 # << >>
           /\ Head(r1) \in {"-", "a"}
           /\ r2 # << >>
           /\ DigitRunLen(r2) = Len(r2)
        THEN Some(<<SubSeq(cleaned, 1, n1), r2>>)
        ELSE None

\* parse_training_days_input that keeps a reversed range as it was typed
parse_training_days_input_NoSwap(input_str) ==
    IF input_str = << >> THEN << >>
    ELSE LET cleaned     == Lower(Strip(input_str))
             range_match == RangePatternMatch(cleaned)
         IN  IF ~IsNone(range_match)
             THEN LET start == IntOfDigits(range_match[1][1])
                      end   == IntOfDigits(range_match[1][2])
                  IN  IF start < 1 \/ end > DaysInWeek THEN Strip(input_str)
                      ELSE StrOfNat(start) \o <<"-">> \o StrOfNat(end)
             ELSE IF cleaned # << >> /\ DigitRunLen(cleaned) = Len(cleaned)
                     /\ IntOfDigits(cleaned) >= 1 /\ IntOfDigits(cleaned) <= DaysInWeek
                  THEN StrOfNat(IntOfDigits(cleaned))
                  ELSE Strip(input_str)

\* calculations.py: parse_training_days_input
parse_training_days_input(input_str) ==
    IF input_str = << >> THEN << >>
    ELSE LET cleaned     == Lower(Strip(input_str))
             range_match == RangePatternMatch(cleaned)
         IN  IF ~IsNone(range_match)
             THEN LET g1    == IntOfDigits(range_match[1][1])
                      g2    == IntOfDigits(range_match[1][2])
                      start == IF g1 > g2 THEN g2 ELSE g1
                      end   == IF g1 > g2 THEN g1 ELSE g2
                  IN  IF start < 1 \/ end > DaysInWeek THEN Strip(input_str)
                      ELSE StrOfNat(start) \o <<"-">> \o StrOfNat(end)
             ELSE IF cleaned # << >> /\ DigitRunLen(cleaned) = Len(cleaned)
                     /\ IntOfDigits(cleaned) >= 1 /\ IntOfDigits(cleaned) <= DaysInWeek
                  THEN StrOfNat(IntOfDigits(cleaned))
                  ELSE Strip(input_str)

\* validators.py: TrainingDaysValidator.validate raises no ValidationError
TrainingDaysValid(document_text) ==
    LET text == Strip(document_text)
        n1   == DigitRunLen(text)
        rest == SubSeq(text, n1 + 2, Len(text))
    IN  IF text = << >> THEN TRUE
        ELSE IF n1 = Len(text)
             THEN IntOfDigits(text) >= 1 /\ IntOfDigits(text) <= DaysInWeek
        ELSE IF n1 >= 1 /\ text[n1 + 1] = "-" /\ rest # << >> /\ DigitRunLen(rest) = Len(rest)
             THEN LET start == IntOfDigits(SubSeq(text, 1, n1))
                      end   == IntOfDigits(rest)
                  IN  ~(start < 1 \/ end > DaysInWeek \/ start > end)
        ELSE FALSE

Lunes == <<"L", "u", "n", "e", "s">>

Martes == <<"M", "a", "r", "t", "e", "s">>

Miercoles == <<"M", "i", "é", "r", "c", "o", "l", "e", "s">>

Jueves == <<"J", "u", "e", "v", "e", "s">>

Viernes == <<"V", "i", "e", "r", "n", "e", "s">>

Sabado == <<"S", "á", "b", "a", "d", "o">>

Domingo == <<"D", "o", "m", "i", "n", "g", "o">>

\* calculations.py: day_mapping of normalize_day_of_week_input
day_mapping ==
    << [keys |-> {<<"l">>, <<"l", "u", "n">>, <<"l", "u", "n", "e", "s">>},
        day |-> Lunes],
       [keys |-> {<<"m">>, <<"m", "a", "r">>, <<"m", "a", "r", "t", "e", "s">>},
        day |-> Martes],
       [keys |-> {<<"x">>, <<"m", "i", "e">>, <<"m", "i", "e", "r">>, <<"m", "i", "é", "r", "c", "o", "l", "e", "s">>, <<"m", "i", "e", "r", "c", "o", "l", "e", "s">>},
        day |-> Miercoles],
       [keys |-> {<<"j">>, <<"j", "u", "e">>, <<"j", "u", "e", "v", "e", "s">>},
        day |-> Jueves],
       [keys |-> {<<"v">>, <<"v", "i", "e">>, <<"v", "i", "e", "r", "n", "e", "s">>},
        day |-> Viernes],
       [keys |-> {<<"s">>, <<"s", "a", "b">>, <<"s", "á", "b", "a", "d", "o">>, <<"s", "a", "b", "a", "d", "o">>},
        day |-> Sabado],
       [keys |-> {<<"d">>, <<"d", "o", "m">>, <<"d", "o", "m", "i", "n", "g", "o">>},
        day |-> Domingo] >>

\* calculations.py: normalize_day_of_week_input
normalize_day_of_week_input(input_str) ==
    IF input_str = << >> THEN << >>
    ELSE LET normalized_input == Lower(Strip(input_str))
             hits == {i \in 1..Len(day_mapping) : normalized_input \in day_mapping[i].keys}
         IN  IF hits # {} THEN day_mapping[CHOOSE i \in hits : TRUE].day
             ELSE Strip(input_str)

WeekdayNames == {day_mapping[i].day : i \in 1..Len(day_mapping)}

\* str.split on any of the separators seps
RECURSIVE SplitOn(_, _)
SplitOn(s, seps) ==
    LET cuts == {i \in 1..Len(s) : s[i] \in seps}
    IN  IF cuts = {} THEN <<s>>
        ELSE LET k == CHOOSE i \in cuts : \A j \in cuts : i <= j
             IN  <<SubSeq(s, 1, k - 1)>> \o SplitOn(SubSeq(s, k + 1, Len(s)), seps)

\* sep.join(parts)
RECURSIVE JoinWith(_, _)
JoinWith(parts, sep) ==
    IF parts = << >> THEN << >>
    ELSE IF Len(parts) = 1 THEN parts[1]
    ELSE parts[1] \o sep \o JoinWith(Tail(parts), sep)

\* the unavailable-days parser: the tokens between commas and semicolons are
\* normalised one by one, the unrecognised ones dropped, and the weekday names
\* joined with commas
parse_unavailable_days_input(input_str) ==
    LET tokens == SplitOn(input_str, {",", ";"})
        names  == [i \in 1..Len(tokens) |-> normalize_day_of_week_input(tokens[i])]
        IsWeekday(n) == n \in WeekdayNames
    IN  JoinWith(SelectSeq(names, IsWeekday), <<",">>)

\* the number of weekday names in the unavailable_days field
UnavailableCount(unavailable) ==
    IF unavailable = << >> THEN 0 ELSE Len(SplitOn(unavailable, {","}))

\* the available_training_days field converted to a day count: Some(n), or None
\* when the field holds neither a number nor a range
DayCount(rule, available) ==
    LET parts == SplitOn(available, {"-"})
        AllDigits(x) == x # << >> /\ DigitRunLen(x) = Len(x)
    IN  IF Len(parts) = 1 /\ AllDigits(parts[1]) THEN Some(IntOfDigits(parts[1]))
        ELSE IF Len(parts) = 2 /\ AllDigits(parts[1]) /\ AllDigits(parts[2])
             THEN Some(IF rule = "low" THEN IntOfDigits(parts[1]) ELSE IntOfDigits(parts[2]))
        ELSE None

\* the coherence check of the profile: the list of warnings
validate_training_days_coherence(rule, available, unavailable) ==
    LET count == DayCount(rule, available)
    IN  IF unavailable = << >> THEN << >>
        ELSE IF ~IsNone(count) /\ count[1] > DaysInWeek - UnavailableCount(unavailable)
             THEN <<"available_training_days exceeds the days left by unavailable_days">>
        ELSE << >>

\* texts typed at the available-days prompt: those the validator lets through
AvailableDaysTexts ==
    {StrOfNat(n) : n \in 0..(DaysInWeek + 1)}
    \cup {StrOfNat(a) \o <<"-">> \o StrOfNat(b) : a, b \in 0..(DaysInWeek + 1)}
    \cup {<< >>, <<"0", "7">>, <<" ", "5", " ">>, <<"3", " ", "a", " ", "4">>, <<"x">>}

AvailableDaysInputs == {t \in AvailableDaysTexts : TrainingDaysValid(t)}

DayTokens == { <<"L", "u", "n", "e", "s">>, <<"m", "a", "r">>, <<"X">> }

\* texts typed at the unavailable-days prompt
UnavailableDaysTexts ==
    {JoinWith(q, <<",">>) : q \in SeqsUpTo(DayTokens, MaxTokens) \ {<< >>}}
    \cup { <<"L", ";", " ", "d">>, <<" ", "d", "o", "m", " ", ",", "z", "z">>,
           <<"z", "z">>, << >>, <<" ">> }

\* the answers at the unavailable-days prompt, trimmed, with their normalised
\* form
UnavailableDaysAnswers ==
    {[input |-> Strip(t), normalized |-> parse_unavailable_days_input(Strip(t))] :
        t \in UnavailableDaysTexts}

\* the profile has its personal data, its weekly volume and its objective
CoherenceProfiles == {p \in PlanProfiles : is_complete(p) /\ p.avg_weekly_km # None}

InitCoherence ==
    /\ CalcIdle /\ PlanIdle /\ PersistIdle /\ SessionIdle /\ OptimizerIdle
    /\ profile \in CoherenceProfiles
    /\ doc = None /\ copy = None /\ complete = None /\ completeBefore = None /\ mpc = "idle"
    /\ available_training_days = << >> /\ unavailable_days = << >>
    /\ unavailable_days_input = << >> /\ validation_errors = << >>
    /\ dayCountRule \in {"low", "high"}
    /\ cpc = "available_days"

\* prompt_training_context: the available-days prompt and its assignment
PromptAvailableDays ==
    /\ cpc = "available_days"
    /\ \E text \in AvailableDaysInputs :
          LET available_days_input == Strip(text)
          IN  available_training_days' =
                  IF available_days_input # << >>
                  THEN parse_training_days_input(available_days_input)
                  ELSE available_training_days
    /\ cpc' = "unavailable_days"
    /\ UNCHANGED <<unavailable_days, unavailable_days_input, validation_errors, dayCountRule>>
    /\ UNCHANGED OtherThanCoherence

\* one turn of the unavailable-days loop with an empty answer: the field is
\* cleared and the loop left without a check
PromptUnavailableDaysEmpty ==
    /\ cpc \in {"unavailable_days", "warned"}
    /\ \E answer \in UnavailableDaysAnswers :
          /\ answer.input = << >>
          /\ unavailable_days_input' = answer.input
    /\ unavailable_days' = << >>
    /\ cpc' = "skipped"
    /\ UNCHANGED <<available_training_days, validation_errors, dayCountRule>>
    /\ UNCHANGED OtherThanCoherence

\* PromptUnavailableDays with the check called before the assignment of the
\* normalised answer
PromptUnavailableDays_CheckBeforeAssign ==
    /\ cpc \in {"unavailable_days", "warned"}
    /\ \E answer \in UnavailableDaysAnswers :
          LET errors == validate_training_days_coherence(
                            dayCountRule, available_training_days, unavailable_days)
          IN  /\ answer.input # << >>
              /\ unavailable_days_input' = answer.input
              /\ unavailable_days' = answer.normalized
              /\ validation_errors' = errors
              /\ cpc' = IF errors # << >> THEN "warned" ELSE "accepted"
    /\ UNCHANGED <<available_training_days, dayCountRule>>
    /\ UNCHANGED OtherThanCoherence

\* one turn of the unavailable-days loop with a non-empty answer: the answer
\* is normalised and assigned, the coherence check is called, and the loop is
\* repeated on a warning and left otherwise
PromptUnavailableDays ==
    /\ cpc \in {"unavailable_days", "warned"}
    /\ \E answer \in UnavailableDaysAnswers :
          LET errors == validate_training_days_coherence(
                            dayCountRule, available_training_days, answer.normalized)
          IN  /\ answer.input # << >>
              /\ unavailable_days_input' = answer.input
              /\ unavailable_days' = answer.normalized
              /\ validation_errors' = errors
              /\ cpc' = IF errors # << >> THEN "warned" ELSE "accepted"
    /\ UNCHANGED <<available_training_days, dayCountRule>>
    /\ UNCHANGED OtherThanCoherence

NextCoherence == PromptAvailableDays \/ PromptUnavailableDaysEmpty \/ PromptUnavailableDays

SpecCoherence == InitCoherence /\ [][NextCoherence]_vars

(***************************************************************************)
(* Properties of the training-days prompts (checked under SpecCoherence).  *)
(***************************************************************************)
\* the coherence check has just been called on the profile
CoherenceChecked == cpc \in {"warned", "accepted"}

\* the warnings of the check against the fields it was called on
CoherenceWarningsRight ==
    CoherenceChecked =>
        LET count == DayCount(dayCountRule, available_training_days)
        IN  /\ (~IsNone(count)
                /\ count[1] > DaysInWeek - UnavailableCount(unavailable_days))
               => validation_errors # << >>
            /\ unavailable_days = << >> => validation_errors = << >>

\* a turn of the loop leaves the profile as the prompts set it
CoherenceKeepsProfile ==
    cpc \in {"unavailable_days", "warned"} =>
        /\ profile' = profile
        /\ available_training_days' = available_training_days
        /\ cpc' \in {"warned", "accepted"} =>
               unavailable_days' = parse_unavailable_days_input(unavailable_days_input')

FileKinds == {"missing", "inaccessible", "unreadable", "not_json", "json_array", "json", "partial"}

JsonFile(d) == [kind |-> "json", doc |-> Some(d)]

BrokenFile(k) == [kind |-> k, doc |-> None]

\* a profile like create_sample_profile(): both heart rates, zones never computed
SampleProfile ==
    [create_empty_profile(0) EXCEPT
        !.name = "Ana", !.age = Some(30), !.gender = Femenino,
        !.height_cm = Some(180), !.weight_kg = Some(67),
        !.max_hr = Some(184), !.resting_hr = Some(41),
        !.avg_weekly_km = Some(50), !.training_days_per_week = <<"5">>,
        !.include_strength_training = TRUE,
        !.quality_session_preference = "Martes, Jueves",
        !.personal_bests = SamplePersonalBests,
        !.main_objective = Some(SampleRaceA),
        !.intermediate_races = <<SampleRaceB>>]

PersistProfiles == PlanProfiles \cup {SampleProfile}

PersistFiles ==
    {BrokenFile(k) : k \in FileKinds \ {"json"}}
    \cup {JsonFile(to_dict(p)) : p \in PersistProfiles}

\* persistence.py: load_profile(filepath) called at time now.  The exists()
\* test stands before the try block: a missing file returns there, and for a
\* file in a directory that may not be searched Path.exists() raises
\* PermissionError, which nothing handles.  Inside the try block open() of an
\* unreadable file raises OSError, json.load of a text that is not JSON raises
\* JSONDecodeError, from_dict of an array raises AttributeError, and each
\* handler returns create_empty_profile()
load_profile(f, now) ==
    IF f.kind = "missing" THEN [raised |-> FALSE, profile |-> Some(create_empty_profile(now))]
    ELSE IF f.kind = "inaccessible" THEN [raised |-> TRUE, profile |-> None]
    ELSE IF f.kind = "unreadable" THEN [raised |-> FALSE, profile |-> Some(create_empty_profile(now))]
    ELSE IF f.kind \in {"not_json", "partial"} THEN [raised |-> FALSE, profile |-> Some(create_empty_profile(now))]
    ELSE IF f.kind = "json_array" THEN [raised |-> FALSE, profile |-> Some(create_empty_profile(now))]
    ELSE [raised |-> FALSE, profile |-> Some(from_dict(f.doc[1], now))]

\* what can go wrong in save_profile: nothing; mkdir or open raises OSError
\* before the file is opened; the write raises OSError (disk full, I/O error)
\* after open(filepath, 'w') has emptied the file
SaveFaults == {"none", "open_fails", "write_fails"}

\* persistence.py: save_profile(profile, filepath): the returned flag and the
\* file it leaves
save_profile(p, f, fault) ==
    IF fault = "open_fails" \/ f.kind = "inaccessible" THEN [ok |-> FALSE, file |-> f]
    ELSE IF fault = "write_fails" THEN [ok |-> FALSE, file |-> BrokenFile("partial")]
    ELSE [ok |-> TRUE, file |-> JsonFile(to_dict(p))]

InitPersist ==
    /\ CalcIdle /\ PlanIdle /\ CoherenceIdle /\ SessionIdle /\ OptimizerIdle
    /\ doc = None /\ copy = None /\ complete = None /\ completeBefore = None /\ mpc = "idle"
    /\ profile \in PersistProfiles
    /\ file \in PersistFiles
    /\ fileBefore = file
    /\ persistResult = None
    /\ fpc = "ready"

\* persistence.py: loaded = load_profile(filepath)
LoadProfile ==
    /\ fpc = "ready"
    /\ \E now \in Times :
        LET r == load_profile(file, now)
        IN  persistResult' = Some([op |-> "load", raised |-> r.raised, ok |-> ~r.raised,
                                   profile |-> r.profile])
    /\ fpc' = "returned"
    /\ UNCHANGED <<profile, file, fileBefore>>
    /\ UNCHANGED OtherThanPersist

\* persistence.py: ok = save_profile(profile, filepath)
SaveProfile ==
    /\ fpc = "ready"
    /\ \E fault \in SaveFaults :
        LET r == save_profile(profile, file, fault)
        IN  /\ file' = r.file
            /\ persistResult' = Some([op |-> "save", raised |-> FALSE, ok |-> r.ok,
                                      profile |-> Some(profile)])
    /\ fpc' = "returned"
    /\ UNCHANGED <<profile, fileBefore>>
    /\ UNCHANGED OtherThanPersist

NextPersist == LoadProfile \/ SaveProfile

SpecPersist == InitPersist /\ [][NextPersist]_vars

\* the last call was op and it has returned or raised
PersistDone(op) == fpc = "returned" /\ persistResult # None /\ persistResult[1].op = op

\* C13: load_profile never raises, and for a file that is missing, unreadable
\* or not valid JSON it returns a profile equal to create_empty_profile(),
\* whose personal_bests has the keys 5k, 10k, half_marathon and marathon, each
\* null.
C13_LoadNeverRaises ==
    PersistDone("load") =>
        /\ ~persistResult[1].raised
        /\ persistResult[1].profile # None
        /\ file.kind \in {"missing", "inaccessible", "unreadable", "not_json", "partial"} =>
            /\ \E now \in Times : persistResult[1].profile[1] = create_empty_profile(now)
            /\ DOMAIN persistResult[1].profile[1].personal_bests =
                   {"5k", "10k", "half_marathon", "marathon"}
            /\ \A k \in {"5k", "10k", "half_marathon", "marathon"} :
                   persistResult[1].profile[1].personal_bests[k] = None

\* C14: a failed save_profile returns False without raising, leaves the
\* in-memory profile unchanged and leaves no partial file: the file holds
\* the complete previous content or the complete new content.
C14_FailedSaveLeavesNoPartialFile ==
    (PersistDone("save") /\ ~persistResult[1].ok) =>
        /\ ~persistResult[1].raised
        /\ persistResult[1].profile = Some(profile)
        /\ file = fileBefore \/ file = JsonFile(to_dict(profile))

(***************************************************************************)
(* cli.py and main.py: one interactive session.  main.py obtains a profile *)
(* (run_interactive_mode from the default file, when it exists;            *)
(* run_interactive_mode_with_file from the file it is given, here the      *)
(* default file), start_interactive_cli shows the menu until the user      *)
(* leaves, and main.py ends the session.  A section is one action: the     *)
(* answers to its prompts, and the prompt at which the user presses Ctrl+C *)
(* if any, are its inputs.  Choice 7 only displays the profile.  The       *)
(* fields current_training_period, running_experience_years,               *)
(* available_training_days, unavailable_days and Injury.current_status,    *)
(* which cli.py asks for, are not fields of models.py and are left out     *)
(* here; the prompts for the last two are the subject of SpecCoherence.    *)
(***************************************************************************)
MaxEdits == 2

MaxLoop == 1

\* cli.py: the snapshot AthleteProfile.from_dict(profile.to_dict())
Snapshot(p) == from_dict(to_dict(p), p.generated_at)

\* profiles_are_different that compares the names alone
profiles_are_different_ByName(original, current) == original.name # current.name

\* cli.py: profiles_are_different
profiles_are_different(original, current) == CanonicalDoc(original) # CanonicalDoc(current)

\* the outcome of a section: the profile it returns, and whether the user
\* pressed Ctrl+C at one of its prompts
Completed(p) == [profile |-> p, interrupted |-> FALSE]

Interrupted(p) == [profile |-> p, interrupted |-> TRUE]

\* the answers to the five prompts: a name, and for the others an empty
\* answer or a value
PersonalInfoAnswers ==
    LET body == Some([height_cm |-> 180, weight_kg |-> 67])
    IN  {[name |-> "Ana", age |-> None, gender |-> << >>, body |-> None],
         [name |-> "Ana", age |-> Some(30), gender |-> << >>, body |-> None],
         [name |-> "Ana", age |-> None, gender |-> <<"f">>, body |-> None],
         [name |-> "Ana", age |-> Some(30), gender |-> << >>, body |-> body],
         [name |-> "Ana", age |-> Some(30), gender |-> <<"f">>, body |-> body]}

\* cli.py: prompt_personal_info; an empty answer keeps the field, Ctrl+C at
\* any of the five prompts returns the snapshot
prompt_personal_info(p) ==
    {Completed([p EXCEPT !.name = a.name,
                         !.age = IF a.age # None THEN a.age ELSE @,
                         !.gender = IF a.gender # << >> THEN normalize_gender_input(a.gender) ELSE @,
                         !.height_cm = IF a.body # None THEN Some(a.body[1].height_cm) ELSE @,
                         !.weight_kg = IF a.body # None THEN Some(a.body[1].weight_kg) ELSE @]) :
        a \in PersonalInfoAnswers}
    \cup {Interrupted(Snapshot(p))}

\* calculations.py: validate_heart_rates, the messages as short names
validate_heart_rates(max_hr, resting_hr) ==
    (IF max_hr # None /\ resting_hr # None /\ max_hr[1] <= resting_hr[1] THEN {"not_above"} ELSE {})
    \cup (IF max_hr # None /\ resting_hr # None /\ max_hr[1] - resting_hr[1] < 20 THEN {"too_close"} ELSE {})
    \cup (IF max_hr # None /\ (max_hr[1] < 120 \/ max_hr[1] > 220) THEN {"max_range"} ELSE {})
    \cup (IF resting_hr # None /\ (resting_hr[1] < 30 \/ resting_hr[1] > 100) THEN {"resting_range"} ELSE {})

PhysiologicalAnswers ==
    LET others == Some([vo2_max |-> 60, lactate_threshold_bpm |-> 179, hrv_ms |-> 45])
    IN  {[max_hr |-> None, resting_hr |-> None, others |-> None],
         [max_hr |-> Some(184), resting_hr |-> None, others |-> None],
         [max_hr |-> None, resting_hr |-> Some(41), others |-> None],
         [max_hr |-> Some(184), resting_hr |-> Some(41), others |-> None],
         [max_hr |-> Some(190), resting_hr |-> None, others |-> None],
         [max_hr |-> None, resting_hr |-> None, others |-> others]}

\* cli.py: prompt_physiological_metrics; the zones are computed when both
\* heart rates are set (a rate of 0 counts as unset) and validate_heart_rates
\* has nothing to say
prompt_physiological_metrics(p) ==
    {Completed(
        LET max_hr     == IF a.max_hr # None THEN a.max_hr ELSE p.max_hr
            resting_hr == IF a.resting_hr # None THEN a.resting_hr ELSE p.resting_hr
            both       == max_hr # None /\ max_hr[1] # 0 /\ resting_hr # None /\ resting_hr[1] # 0
        IN  [p EXCEPT !.max_hr = max_hr,
                      !.resting_hr = resting_hr,
                      !.training_zones =
                          IF both /\ validate_heart_rates(max_hr, resting_hr) = {}
                          THEN Some(calculate_training_zones(max_hr[1], resting_hr[1]))
                          ELSE @,
                      !.vo2_max = IF a.others # None THEN Some(a.others[1].vo2_max) ELSE @,
                      !.lactate_threshold_bpm =
                          IF a.others # None THEN Some(a.others[1].lactate_threshold_bpm) ELSE @,
                      !.hrv_ms = IF a.others # None THEN Some(a.others[1].hrv_ms) ELSE @]) :
        a \in PhysiologicalAnswers}
    \cup {Interrupted(Snapshot(p))}

YesAnswers == {<<"s", "í">>, <<"s", "i">>, <<"s">>, <<"y", "e", "s">>, <<"y">>}

TrainingContextAnswers ==
    {[avg_weekly_km |-> None, days |-> << >>, strength |-> << >>],
     [avg_weekly_km |-> Some(50), days |-> << >>, strength |-> << >>],
     [avg_weekly_km |-> None, days |-> <<"4", "-", "5">>, strength |-> << >>],
     [avg_weekly_km |-> Some(50), days |-> <<"5">>, strength |-> <<"S">>],
     [avg_weekly_km |-> None, days |-> << >>, strength |-> <<"N">>]}

\* cli.py: prompt_training_context, for the fields that models.py has; the
\* two strength questions get the same answer here
prompt_training_context(p) ==
    {Completed([p EXCEPT !.avg_weekly_km = IF a.avg_weekly_km # None THEN a.avg_weekly_km ELSE @,
                         !.training_days_per_week =
                             IF a.days # << >> THEN parse_training_days_input(a.days) ELSE @,
                         !.strength_training_history =
                             IF a.strength # << >> THEN Lower(a.strength) \in YesAnswers ELSE @,
                         !.include_strength_training =
                             IF a.strength # << >> THEN Lower(a.strength) \in YesAnswers ELSE @]) :
        a \in TrainingContextAnswers}
    \cup {Interrupted(Snapshot(p))}

\* the seconds of a time HH:MM:SS
TimeSeconds(t) ==
    IntOfDigits(SubSeq(t, 1, 2)) * 3600 + IntOfDigits(SubSeq(t, 4, 5)) * 60
    + IntOfDigits(SubSeq(t, 7, 8))

\* calculations.py: estimate_vo2_max_from_time for the distances 10.0 and
\* 21.097 (distance_m), in whole ml/kg/min: 483 (or 460) divided by the pace
\* in minutes per km, less one percent per year of age over 25, kept within
\* 25.0 and 85.0.  The estimate is scaled / unit; the times entered in the
\* sessions give a value at the upper end
estimate_vo2_max_from_time(distance_m, time_str, age) ==
    LET total_seconds == TimeSeconds(time_str)
        over          == IF age > 25 THEN age - 25 ELSE 0
        scaled        == IF distance_m = 10000 THEN 2898 * (100 - over)
                         ELSE 5822772 * (100 - over)
        unit          == IF distance_m = 10000 THEN total_seconds ELSE 1000 * total_seconds
    IN  IF total_seconds = 0 THEN None
        ELSE IF distance_m \notin {10000, 21097} THEN None
        ELSE IF scaled \div unit >= 85 THEN Some(85)
        ELSE IF (scaled - 1) \div unit < 25 THEN Some(25)
        ELSE Some(RoundHalfEven(scaled, unit))

PerformanceAnswers == {<< >>, <<"3", "9", ":", "5", "0">>}

\* cli.py: prompt_performance_data, the question about the estimate included:
\* confirm_action answers False when the user presses Ctrl+C, so that the
\* section goes on and returns the profile with the times just entered
prompt_performance_data(p) ==
    UNION {
        LET parsed == parse_time_input(a)
            bests  == IF a # << >> /\ parsed # None
                      THEN [k \in DOMAIN p.personal_bests \cup {"10k"} |->
                                IF k = "10k" THEN parsed ELSE p.personal_bests[k]]
                      ELSE p.personal_bests
            p1     == [p EXCEPT !.personal_bests = bests]
            known(k) == k \in DOMAIN bests /\ bests[k] # None
            estimate ==
                IF p1.vo2_max # None /\ p1.vo2_max[1] # 0 THEN None
                ELSE IF p1.age = None \/ p1.age[1] = 0 THEN None
                ELSE IF p1.weight_kg = None \/ p1.weight_kg[1] = 0 THEN None
                ELSE IF known("10k")
                     THEN estimate_vo2_max_from_time(10000, bests["10k"][1], p1.age[1])
                ELSE IF known("half_marathon")
                     THEN estimate_vo2_max_from_time(21097, bests["half_marathon"][1], p1.age[1])
                ELSE None
        IN  IF estimate = None THEN {Completed(p1)}
            ELSE {Completed([p1 EXCEPT !.vo2_max = estimate]), Completed(p1), Interrupted(p1)} :
        a \in PerformanceAnswers}
    \cup {Interrupted(Snapshot(p))}

\* what a part of a section hands on: the profile or list so far, whether
\* Ctrl+C was pressed, and whether the interrupt left the part (aborted) and
\* reaches the handler of the section
Part(v, interrupted, aborted) == [value |-> v, interrupted |-> interrupted, aborted |-> aborted]

\* cli.py: manage_main_objective.  With an objective present confirm_action
\* asks whether to modify it, and answers False on Ctrl+C; an invalid date
\* returns the profile as it is; Ctrl+C at one of the five prompts is not
\* handled here
manage_main_objective(p) ==
    LET asked == {Part([p EXCEPT !.main_objective = Some(SampleRaceA)], FALSE, FALSE),
                  Part(p, FALSE, FALSE),
                  Part(p, TRUE, TRUE)}
    IN  IF p.main_objective # None
        THEN {Part(p, FALSE, FALSE), Part(p, TRUE, FALSE)} \cup asked
        ELSE asked

EditedRace == [SampleRaceB EXCEPT !.terrain = "Trail"]

EditedInjury == [SampleInjury EXCEPT !.recovery_desc = "fisioterapia"]

\* cli.py: the loop of manage_intermediate_races_complete and of
\* manage_injury_history over a list, for at most fuel more turns after which
\* the user leaves.  With an empty list confirm_action asks whether to add an
\* item and answers False on Ctrl+C; otherwise the menu 1-4 is shown, where
\* Ctrl+C is not handled.  The create and edit helpers return None on Ctrl+C,
\* the select helper returns None on Ctrl+C or on "c" and lets EOF through
RECURSIVE ManageLoop(_, _, _, _, _)
ManageLoop(items, interrupted, fuel, fresh, edited) ==
    IF items = << >>
    THEN {Part(items, interrupted, FALSE), Part(items, TRUE, FALSE)}
         \cup (IF fuel = 0 THEN {}
               ELSE ManageLoop(<<fresh>>, interrupted, fuel - 1, fresh, edited)
                    \cup ManageLoop(items, TRUE, fuel - 1, fresh, edited))
    ELSE {Part(items, interrupted, FALSE), Part(items, TRUE, TRUE)}
         \cup (IF fuel = 0 THEN {}
               ELSE \* 1: add
                    ManageLoop(Append(items, fresh), interrupted, fuel - 1, fresh, edited)
                    \cup ManageLoop(items, TRUE, fuel - 1, fresh, edited)
                    \* 2: edit the first, or cancel the selection
                    \cup ManageLoop([items EXCEPT ![1] = edited], interrupted, fuel - 1, fresh, edited)
                    \cup ManageLoop(items, interrupted, fuel - 1, fresh, edited)
                    \* 3: delete the last
                    \cup ManageLoop(SubSeq(items, 1, Len(items) - 1), interrupted, fuel - 1,
                                    fresh, edited))

\* cli.py: manage_intermediate_races_complete
manage_intermediate_races_complete(p, interrupted) ==
    {Part([p EXCEPT !.intermediate_races = l.value], l.interrupted, l.aborted) :
        l \in ManageLoop(p.intermediate_races, interrupted, MaxLoop, SampleRaceB, EditedRace)}

\* cli.py: prompt_race_goals; an interrupt that leaves one of the two parts
\* returns the snapshot
prompt_race_goals(p) ==
    UNION {IF m.aborted THEN {Interrupted(Snapshot(p))}
           ELSE {IF r.aborted THEN Interrupted(Snapshot(p))
                 ELSE [profile |-> r.value, interrupted |-> r.interrupted] :
                    r \in manage_intermediate_races_complete(m.value, m.interrupted)} :
        m \in manage_main_objective(p)}

\* cli.py: manage_injury_history
manage_injury_history(p) ==
    {IF l.aborted THEN Interrupted(Snapshot(p))
     ELSE [profile |-> [p EXCEPT !.injuries = l.value], interrupted |-> l.interrupted] :
        l \in ManageLoop(p.injuries, FALSE, MaxLoop, SampleInjury, EditedInjury)}

NamedProfile == [create_empty_profile(0) EXCEPT !.name = "Ana"]

\* the default file before the session; the file written by the sample mode
\* of main.py is one of them
SessionFiles ==
    {MissingFile, BrokenFile("unreadable"), BrokenFile("not_json"),
     JsonFile(to_dict(NamedProfile)), JsonFile(to_dict(SampleProfile))}

InitSession ==
    /\ CalcIdle /\ PlanIdle /\ CoherenceIdle /\ OptimizerIdle
    /\ doc = None /\ copy = None /\ complete = None /\ completeBefore = None /\ mpc = "idle"
    /\ persistResult = None /\ fpc = "idle"
    /\ profile = DefaultProfile(0)
    /\ file \in SessionFiles
    /\ fileBefore = file
    /\ baseline = None /\ sectionEntry = None
    /\ lastSection = [section |-> 0, interrupted |-> FALSE]
    /\ explicitSave = FALSE /\ edits = 0
    /\ mode \in {"default", "load"}
    /\ spc = "start"

\* main.py and cli.py up to the first menu: run_interactive_mode_with_file
\* loads the file; run_interactive_mode lets load_existing_or_create_profile
\* load it when it exists and create an empty profile otherwise; then the
\* baseline is taken
StartSession ==
    /\ spc = "start"
    /\ \E now \in Times :
        LET loaded == IF mode = "default" /\ file.kind = "missing"
                      THEN create_empty_profile(now)
                      ELSE load_profile(file, now).profile[1]
        IN  /\ profile' = loaded
            /\ baseline' = Some(Snapshot(loaded))
    /\ spc' = "menu"
    /\ UNCHANGED <<file, fileBefore, sectionEntry, lastSection, explicitSave, edits, mode>>
    /\ UNCHANGED OtherThanSession

\* cli.py: start_interactive_cli after a choice 1 to 6 of the menu:
\* profile = section_functions[choice](profile), r being what the section
\* returned
SectionReturns(choice, r) ==
    /\ profile' = r.profile
    /\ lastSection' = [section |-> choice, interrupted |-> r.interrupted]
    /\ sectionEntry' = Some(profile)
    /\ edits' = edits + 1
    /\ UNCHANGED <<file, fileBefore, baseline, explicitSave, mode, spc>>
    /\ UNCHANGED OtherThanSession

\* choice 1
PromptPersonalInfo ==
    /\ spc = "menu"
    /\ edits < MaxEdits
    /\ \E r \in prompt_personal_info(profile) : SectionReturns(1, r)

\* choice 2
PromptPhysiologicalMetrics ==
    /\ spc = "menu"
    /\ edits < MaxEdits
    /\ \E r \in prompt_physiological_metrics(profile) : SectionReturns(2, r)

\* choice 3
PromptTrainingContext ==
    /\ spc = "menu"
    /\ edits < MaxEdits
    /\ \E r \in prompt_training_context(profile) : SectionReturns(3, r)

\* choice 4
PromptPerformanceData ==
    /\ spc = "menu"
    /\ edits < MaxEdits
    /\ \E r \in prompt_performance_data(profile) : SectionReturns(4, r)

\* choice 5
PromptRaceGoals ==
    /\ spc = "menu"
    /\ edits < MaxEdits
    /\ \E r \in prompt_race_goals(profile) : SectionReturns(5, r)

\* choice 6
ManageInjuryHistory ==
    /\ spc = "menu"
    /\ edits < MaxEdits
    /\ \E r \in manage_injury_history(profile) : SectionReturns(6, r)

\* cli.py: choice 8: with changes pending the profile is saved, and a
\* successful save makes it the baseline
MenuSave ==
    /\ spc = "menu"
    /\ IF profiles_are_different(baseline[1], profile)
       THEN \E fault \in SaveFaults :
               LET r == save_profile(profile, file, fault)
               IN  /\ file' = r.file
                   /\ baseline' = IF r.ok THEN Some(profile) ELSE baseline
       ELSE UNCHANGED <<file, baseline>>
    /\ explicitSave' = TRUE
    /\ UNCHANGED <<profile, fileBefore, sectionEntry, lastSection, edits, mode, spc>>
    /\ UNCHANGED OtherThanSession

\* main.py: what run_interactive_mode and run_interactive_mode_with_file do
\* with the profile that start_interactive_cli returns: the former saves it
\* when it has a name, the latter always
FinalSave(p, f, fault) ==
    IF mode = "load" \/ p.name # "" THEN save_profile(p, f, fault).file ELSE f

\* cli.py and main.py: choice 9, or Ctrl+C at the menu.  With changes pending
\* handle_exit_with_changes_simple asks whether to save them (confirm_action
\* answers False on Ctrl+C); then start_interactive_cli returns and main.py
\* ends the session
MenuExit ==
    /\ spc = "menu"
    /\ LET asked == profiles_are_different(baseline[1], profile)
       IN  \E answer \in IF asked THEN {"yes", "no", "interrupt"} ELSE {"not_asked"} :
           \E fault1 \in IF answer = "yes" THEN SaveFaults ELSE {"none"}, fault2 \in SaveFaults :
               LET file1 == IF answer = "yes" THEN save_profile(profile, file, fault1).file
                            ELSE file
               IN  /\ file' = FinalSave(profile, file1, fault2)
                   /\ explicitSave' = (explicitSave \/ answer = "yes")
    /\ spc' = "finished"
    /\ UNCHANGED <<profile, fileBefore, baseline, sectionEntry, lastSection, edits, mode>>
    /\ UNCHANGED OtherThanSession

NextSession ==
    \/ StartSession
    \/ PromptPersonalInfo
    \/ PromptPhysiologicalMetrics
    \/ PromptTrainingContext
    \/ PromptPerformanceData
    \/ PromptRaceGoals
    \/ ManageInjuryHistory
    \/ MenuSave
    \/ MenuExit

SpecSession == InitSession /\ [][NextSession]_vars

\* C11: the persisted file changes only on an explicit save (menu choice 8, or
\* answering yes when asked on exit): after a session in which the user never
\* saved and answered no on exit, the file holds exactly what it held before.
C11_FileChangesOnlyOnExplicitSave ==
    (spc = "finished" /\ ~explicitSave) => file = fileBefore

\* C12: an interrupt (Ctrl+C or EOF) at any prompt inside a section discards
\* every change of that section: back at the menu the profile has the same
\* canonical document (generated_at removed) as at the entry of the section,
\* for each of the six sections.
C12_InterruptDiscardsSection ==
    (spc = "menu" /\ lastSection.interrupted) =>
        CanonicalDoc(profile) = CanonicalDoc(sectionEntry[1])

\* C17: after any sequence of section edits and loads training_zones is
\* derived: with max_hr and resting_hr both present it equals
\* calculate_training_zones(max_hr, resting_hr), and with either absent there
\* are no training zones.
C17_ZonesAreDerived ==
    spc \in {"menu", "finished"} =>
        IF profile.max_hr # None /\ profile.resting_hr # None
        THEN profile.training_zones =
                 Some(calculate_training_zones(profile.max_hr[1], profile.resting_hr[1]))
        ELSE profile.training_zones \in {None, Some(EmptyZones)}

(***************************************************************************)
(* json_optimizer.py: optimize_profile_for_ai.  The document is a record   *)
(* of sections and every section is a dict.  The clock counts half days    *)
(* from 2027-10-04 00:00, so datetime.now() is the day clock \div 2 at      *)
(* midnight (even) or at noon (odd); one call reads the clock once.  The   *)
(* helpers that derive a text from the profile alone, without the clock,   *)
(* are kept as terms over the values they read.                            *)
(***************************************************************************)
MaxClock == 4

MaxCalls == 2

\* the dates of the model, as days after 2027-10-04
RaceDays == [d \in {"2027-10-15", "2027-11-30"} |-> IF d = "2027-10-15" THEN 11 ELSE 57]

\* datetime.strptime(race_date, "%Y-%m-%d"): None stands for ValueError
strptime(race_date) ==
    IF race_date \in DOMAIN RaceDays THEN Some(RaceDays[race_date]) ELSE None

\* truth value of an optional number: None and 0 are false
TruthyNumber(v) == v # None /\ v[1] # 0

\* a text or a list a helper computes from the values it reads, no clock
Derived(helper, reads) == [helper |-> helper, reads |-> reads]

\* json_optimizer.py: _calculate_weeks_until_race; now is datetime.now()
_calculate_weeks_until_race(race_date, now) ==
    LET race_dt == strptime(race_date)
    IN  IF race_dt = None THEN None
        ELSE LET days == (2 * race_dt[1] - now) \div 2
                 weeks == days \div 7
             IN  Some(IF weeks > 0 THEN weeks ELSE 0)

\* json_optimizer.py: _determine_readiness_level, completeness in tenths
_determine_readiness_level(completeness) ==
    IF completeness >= 800 THEN "Optimo"
    ELSE IF completeness >= 600 THEN "Bueno"
    ELSE IF completeness >= 400 THEN "Basico"
    ELSE "Insuficiente"

\* json_optimizer.py: _calculate_profile_completeness
_calculate_profile_completeness(p) ==
    LET core == <<p.name # "", TruthyNumber(p.age), p.gender # << >>,
                  TruthyNumber(p.max_hr), TruthyNumber(p.resting_hr),
                  TruthyNumber(p.avg_weekly_km), p.training_days_per_week # << >>,
                  p.main_objective # None>>
        optional == <<p.height_cm # None, p.weight_kg # None, p.vo2_max # None,
                      p.lactate_threshold_bpm # None, p.hrv_ms # None,
                      TRUE, TRUE, TRUE>>
        anyBest == \E k \in DOMAIN p.personal_bests :
                      p.personal_bests[k] # None /\ p.personal_bests[k][1] # << >>
        completed_fields ==
            2 * Cardinality({i \in 1..Len(core) : core[i]})
            + Cardinality({i \in 1..Len(optional) : optional[i]})
            + (IF anyBest THEN 2 ELSE 0)
            + (IF p.intermediate_races # << >> THEN 1 ELSE 0)
            + (IF p.injuries # << >> THEN 1 ELSE 0)
        total_fields == 2 * Len(core) + Len(optional) + 2 + 1 + 1
        tenths == (2 * 1000 * completed_fields + total_fields) \div (2 * total_fields)
    IN  [completed_fields |-> completed_fields, total_fields |-> total_fields,
         completeness_percentage |-> tenths,
         readiness_level |-> _determine_readiness_level(tenths)]

\* json_optimizer.py: _build_physiological_section
_build_physiological_section(p) ==
    [meta_description |-> "Metricas fisiologicas clave",
     max_hr |-> p.max_hr, resting_hr |-> p.resting_hr, vo2_max |-> p.vo2_max,
     lactate_threshold_bpm |-> p.lactate_threshold_bpm, hrv_ms |-> p.hrv_ms,
     training_zones |->
        IF p.training_zones # None
        THEN Some([calculation_method |-> "Karvonen",
                   zones |-> [zone1_recovery |-> p.training_zones[1].zone1_hr,
                              zone2_aerobic |-> p.training_zones[1].zone2_hr,
                              zone3_tempo |-> p.training_zones[1].zone3_hr,
                              zone4_threshold |-> p.training_zones[1].zone4_hr,
                              zone5_vo2max |-> p.training_zones[1].zone5_hr]])
        ELSE None,
     physiological_profile |->
        Derived("_analyze_physiological_profile", <<p.max_hr, p.resting_hr, p.vo2_max, p.gender>>)]

\* json_optimizer.py: _assess_training_readiness
_assess_training_readiness(p, now) ==
    [physiological |->
        IF TruthyNumber(p.max_hr) /\ TruthyNumber(p.resting_hr)
        THEN (IF p.resting_hr[1] < 60 THEN "Excelente base" ELSE "Buena base")
        ELSE "No evaluado",
     experience |->
        IF TruthyNumber(p.avg_weekly_km)
        THEN (IF p.avg_weekly_km[1] > 40 THEN "Experiencia solida"
              ELSE IF p.avg_weekly_km[1] > 20 THEN "Experiencia moderada"
              ELSE "Principiante")
        ELSE "No evaluado",
     injury_risk |-> Derived("injury_risk", p.injuries),
     goal_alignment |->
        IF p.main_objective # None
        THEN LET weeks_available == _calculate_weeks_until_race(p.main_objective[1].date, now)
             IN  IF TruthyNumber(weeks_available) /\ weeks_available[1] > 12
                 THEN "Tiempo suficiente"
                 ELSE IF TruthyNumber(weeks_available) /\ weeks_available[1] > 6
                 THEN "Tiempo limitado"
                 ELSE "Tiempo muy limitado"
        ELSE "No evaluado"]

\* json_optimizer.py: _build_training_context_section
_build_training_context_section(p, now) ==
    [meta_description |-> "Contexto actual de entrenamiento",
     current_training_load |->
        [avg_weekly_km |-> p.avg_weekly_km,
         training_days_per_week |-> p.training_days_per_week,
         load_assessment |-> Derived("_assess_current_load", <<p.avg_weekly_km>>)],
     strength_training |->
        [history |-> p.strength_training_history,
         include_in_plan |-> p.include_strength_training,
         integration_notes |->
            Derived("_generate_strength_notes",
                    <<p.strength_training_history, p.include_strength_training>>)],
     scheduling_preferences |->
        [quality_session_preference |-> p.quality_session_preference,
         scheduling_flexibility |->
            Derived("_assess_scheduling_flexibility", <<p.training_days_per_week>>)],
     training_readiness |-> _assess_training_readiness(p, now)]

\* json_optimizer.py: distance_data of _build_performance_section, in metres
distance_data ==
    [k \in PersonalBestKeys |->
        IF k = "5k" THEN 5000 ELSE IF k = "10k" THEN 10000
        ELSE IF k = "half_marathon" THEN 21097 ELSE 42195]

\* json_optimizer.py: _build_performance_section
_build_performance_section(p) ==
    LET held == {k \in DOMAIN p.personal_bests :
                    p.personal_bests[k] # None /\ p.personal_bests[k][1] # << >>}
    IN  [meta_description |-> "Datos de rendimiento actuales",
         personal_bests |->
            [k \in held |->
                [distance_km |-> distance_data[k],
                 best_time |-> p.personal_bests[k][1],
                 average_pace |->
                    Derived("_calculate_pace_from_time", <<p.personal_bests[k][1], distance_data[k]>>),
                 performance_level |->
                    Derived("_assess_performance_level", <<k, p.personal_bests[k][1], p.age, p.gender>>)]],
         performance_analysis |->
            IF DOMAIN p.personal_bests # {}
            THEN Some(Derived("_analyze_overall_performance", p.personal_bests))
            ELSE None]

\* json_optimizer.py: _build_race_goals_section
_build_race_goals_section(p, now) ==
    [meta_description |-> "Objetivos de carrera del atleta",
     main_objective |->
        IF p.main_objective # None
        THEN LET race == p.main_objective[1]
             IN  Some([name |-> race.name, date |-> race.date,
                       distance_km |-> race.distance_km,
                       distance_display |->
                          Derived("format_distance_for_display", <<race.distance_km>>),
                       goal_time |-> race.goal_time, terrain |-> race.terrain,
                       weeks_until_race |-> _calculate_weeks_until_race(race.date, now),
                       goal_feasibility |-> Derived("_assess_goal_feasibility", << >>)])
        ELSE None,
     intermediate_races |->
        [i \in 1..Len(p.intermediate_races) |->
            LET race == p.intermediate_races[i]
            IN  [name |-> race.name, date |-> race.date, distance_km |-> race.distance_km,
                 distance_display |->
                    Derived("format_distance_for_display", <<race.distance_km>>),
                 goal_time |-> race.goal_time, terrain |-> race.terrain,
                 strategic_purpose |->
                    Derived("_determine_race_purpose", <<race, p.main_objective>>)]],
     goal_analysis |->
        Derived("_analyze_goal_structure", <<p.main_objective, p.intermediate_races>>)]

\* json_optimizer.py: _build_injury_history_section
_build_injury_history_section(p) ==
    [meta_description |-> "Historial de lesiones",
     injuries |->
        [i \in 1..Len(p.injuries) |->
            [type |-> p.injuries[i].type, date_approx |-> p.injuries[i].date_approx,
             recovery_desc |-> p.injuries[i].recovery_desc,
             risk_category |-> Derived("_categorize_injury_risk", <<p.injuries[i].type>>),
             prevention_focus |-> Derived("_suggest_prevention_focus", <<p.injuries[i].type>>)]],
     injury_analysis |->
        IF p.injuries # << >> THEN Derived("_analyze_injury_patterns", p.injuries)
        ELSE Derived("Sin lesiones registradas", << >>)]

\* json_optimizer.py: _recommend_plan_duration; the text starts with the number
\* of weeks
_recommend_plan_duration(p, now) ==
    IF p.main_objective = None THEN <<"Sin objetivo principal">>
    ELSE LET weeks_available == _calculate_weeks_until_race(p.main_objective[1].date, now)
         IN  IF ~TruthyNumber(weeks_available) THEN <<"Fecha de objetivo no valida">>
             ELSE IF weeks_available[1] < 6
             THEN <<weeks_available[1], "semanas - Plan de mantenimiento y puesta a punto">>
             ELSE IF weeks_available[1] < 12
             THEN <<weeks_available[1], "semanas - Plan de desarrollo especifico">>
             ELSE IF weeks_available[1] < 20
             THEN <<weeks_available[1], "semanas - Plan de preparacion completa">>
             ELSE <<weeks_available[1], "semanas - Plan de desarrollo a largo plazo">>

\* one element of a list that is appended under a condition
AppendedIf(condition, item) == IF condition THEN <<item>> ELSE << >>

\* json_optimizer.py: _identify_risk_factors
_identify_risk_factors(p, now) ==
    AppendedIf(p.injuries # << >>, "Historial de lesiones previas")
    \o AppendedIf(/\ TruthyNumber(p.avg_weekly_km) /\ p.main_objective # None
                  /\ LET weeks_available ==
                             _calculate_weeks_until_race(p.main_objective[1].date, now)
                     IN  /\ TruthyNumber(weeks_available) /\ weeks_available[1] < 8
                         /\ p.avg_weekly_km[1] < 30,
                  "Base insuficiente para objetivo en tiempo limitado")
    \o AppendedIf(~p.strength_training_history, "Sin base de fuerza")
    \o AppendedIf(/\ TruthyNumber(p.age) /\ p.age[1] > 40
                  /\ TruthyNumber(p.avg_weekly_km) /\ p.avg_weekly_km[1] > 60,
                  "Atleta master con volumen alto")

\* json_optimizer.py: _identify_special_considerations; raised stands for the
\* ValueError of int()
_identify_special_considerations(p) ==
    LET first == int(BeforeHyphen(p.training_days_per_week))
    IN  IF p.training_days_per_week # << >> /\ first = None
        THEN [raised |-> TRUE, considerations |-> << >>]
        ELSE [raised |-> FALSE,
              considerations |->
                 <<Derived("injury considerations", p.injuries)>>
                 \o AppendedIf(TruthyNumber(p.age) /\ p.age[1] > 45, "Atleta master")
                 \o AppendedIf(p.training_days_per_week # << >> /\ first[1] <= 3,
                               "Disponibilidad limitada")]

\* json_optimizer.py: _build_ai_guidance_section, the second definition of
\* that name in the module, which replaces the first
_build_ai_guidance_section(p, now) ==
    [profile_strength_areas |->
        Derived("_identify_profile_strengths",
                <<p.resting_hr, p.avg_weekly_km, p.personal_bests, p.injuries>>),
     profile_development_areas |->
        Derived("_identify_development_areas",
                <<p.strength_training_history, p.personal_bests, p.avg_weekly_km>>),
     training_plan_priorities |-> Derived("_determine_training_priorities", <<p.main_objective>>),
     special_considerations |-> _identify_special_considerations(p).considerations,
     recommended_plan_duration |-> _recommend_plan_duration(p, now),
     risk_mitigation_focus |-> _identify_risk_factors(p, now)]

\* json_optimizer.py: optimize_profile_for_ai; now is what datetime.now() gives
\* during the call
optimize_profile_for_ai(p, now) ==
    LET bmi == IF TruthyNumber(p.weight_kg) /\ TruthyNumber(p.height_cm)
               THEN calculate_bmi(p.weight_kg, p.height_cm) ELSE None
    IN  [athlete_summary |->
            [meta_description |-> "Resumen ejecutivo del atleta",
             name |-> p.name, age |-> p.age, gender |-> p.gender,
             generated_at |-> now,
             profile_completeness |-> _calculate_profile_completeness(p)],
         personal_info |->
            [meta_description |-> "Datos personales basicos del atleta",
             age |-> p.age, gender |-> p.gender, height_cm |-> p.height_cm,
             weight_kg |-> p.weight_kg, bmi |-> bmi,
             anthropometric_notes |->
                Derived("_generate_anthropometric_notes", <<bmi, p.height_cm, p.age>>)],
         physiological_metrics |-> _build_physiological_section(p),
         training_context |-> _build_training_context_section(p, now),
         performance_data |-> _build_performance_section(p),
         race_goals |-> _build_race_goals_section(p, now),
         injury_history |-> _build_injury_history_section(p),
         ai_guidance |-> _build_ai_guidance_section(p, now)]

\* optimize_profile_for_ai(profile) raises instead of returning a document
OptimizerRaises(p) == _identify_special_considerations(p).raised

\* the document without athlete_summary.generated_at
WithoutGeneratedAt(data) ==
    [data EXCEPT !.athlete_summary =
        [k \in DOMAIN data.athlete_summary \ {"generated_at"} |-> data.athlete_summary[k]]]

(***************************************************************************)
(* The optimizer as a state machine: a profile is given, the clock runs    *)
(* and optimize_profile_for_ai is called on the profile at most MaxCalls   *)
(* times (ai_interface.py and outputgen.py each call it on the profile).   *)
(***************************************************************************)
\* texts typed as the training days of a week
StoredDaysTexts ==
    {<<"2">>, <<"5", " ", "a", " ", "3">>, <<"3", " ", "o", " ", "4">>,
     <<"L", "u", "n", "e", "s">>, <<"0", "-", "3">>}

OptimizerProfiles ==
    PersistProfiles
    \cup { [SampleProfile EXCEPT !.main_objective = Some(SampleRaceB)],
           [SampleProfile EXCEPT !.main_objective = Some(RaceFromDict(EmptyDict))],
           [SampleProfile EXCEPT !.injuries = <<SampleInjury>>,
                                 !.training_zones = Some(calculate_training_zones(184, 41))] }
    \cup { [SampleProfile EXCEPT !.training_days_per_week = parse_training_days_input(text)] :
              text \in StoredDaysTexts }

InitOptimizer ==
    /\ CalcIdle /\ PlanIdle /\ CoherenceIdle /\ PersistIdle /\ SessionIdle
    /\ doc = None /\ copy = None /\ complete = None /\ completeBefore = None /\ mpc = "idle"
    /\ profile \in OptimizerProfiles
    /\ clock = 0
    /\ aiCalls = << >>
    /\ opc = "ready"

\* time passes: half a day
Tick ==
    /\ opc # "idle"
    /\ clock < MaxClock
    /\ clock' = clock + 1
    /\ UNCHANGED <<aiCalls, opc, profile, OtherThanOptimizer>>

\* json_optimizer.py: ai_data = optimize_profile_for_ai(profile)
Optimize ==
    /\ opc # "idle"
    /\ ~OptimizerRaises(profile)
    /\ Len(aiCalls) < MaxCalls
    /\ aiCalls' = Append(aiCalls, [at |-> clock, given |-> profile,
                                   data |-> optimize_profile_for_ai(profile, clock)])
    /\ opc' = "returned"
    /\ UNCHANGED <<clock, profile, OtherThanOptimizer>>

\* json_optimizer.py: optimize_profile_for_ai(profile) raises ValueError and
\* no document is returned
OptimizeRaises ==
    /\ opc # "idle"
    /\ OptimizerRaises(profile)
    /\ opc' = "raised"
    /\ UNCHANGED <<clock, aiCalls, profile, OtherThanOptimizer>>

NextOptimizer == Tick \/ Optimize \/ OptimizeRaises

SpecOptimizer == InitOptimizer /\ [][NextOptimizer]_vars

\* C15: optimize_profile_for_ai is deterministic and free of side effects:
\* two calls on the same profile return documents that are identical once
\* athlete_summary.generated_at is removed, whatever the moments of the two
\* calls, and neither call changes any field of the profile.
C15_OptimizerDeterministic ==
    \A i, j \in 1..Len(aiCalls) :
        /\ aiCalls[i].given = profile
        /\ aiCalls[i].given = aiCalls[j].given =>
              WithoutGeneratedAt(aiCalls[i].data) = WithoutGeneratedAt(aiCalls[j].data)

\* the sections the optimized document is said to hold
NamedSections ==
    {"athlete_summary", "personal_info", "physiological_metrics", "training_context",
     "performance_data", "race_goals", "injury_history"}

\* C16: every top-level section of the document optimize_profile_for_ai returns
\* carries a meta_description, and the sections athlete_summary, personal_info,
\* physiological_metrics, training_context, performance_data, race_goals and
\* injury_history are all present.
C16_SectionsCarryMetaDescription ==
    \A i \in 1..Len(aiCalls) :
        /\ NamedSections \subseteq DOMAIN aiCalls[i].data
        /\ \A section \in DOMAIN aiCalls[i].data :
              "meta_description" \in DOMAIN aiCalls[i].data[section]

(***************************************************************************)
(* models.py: AthleteProfile.from_dict on a document with sections or keys *)
(* missing.  A key is named by its scope (the section, or main_objective,  *)
(* intermediate_races, injuries, training_zones for a nested dict) and its *)
(* name.                                                                   *)
(***************************************************************************)
MaxDroppedKeys == 1

\* the document to_dict writes for AthleteProfile()
DefaultDocument(now) == to_dict(DefaultProfile(now))

SectionNames == DOMAIN DefaultDocument(0)

\* models.py: the keys of a Race, an Injury and a TrainingZones in a document,
\* with the defaults from_dict names for them
RaceDefaults ==
    [name |-> "", date |-> "", distance_km |-> 0, goal_time |-> None, terrain |-> ""]

InjuryDefaults == [type |-> "", date_approx |-> "", recovery_desc |-> ""]

DocumentKeys ==
    UNION { {<<s, k>> : k \in DOMAIN DefaultDocument(0)[s]} : s \in SectionNames }
    \cup {<<"main_objective", k>> : k \in DOMAIN RaceDefaults}
    \cup {<<"intermediate_races", k>> : k \in DOMAIN RaceDefaults}
    \cup {<<"injuries", k>> : k \in DOMAIN InjuryDefaults}
    \cup {<<"training_zones", k>> : k \in DOMAIN EmptyZones}

\* the dict d of the given scope without the keys named in dropped
Drop(d, scope, dropped) == [k \in {x \in DOMAIN d : <<scope, x>> \notin dropped} |-> d[k]]

\* the document without the sections and the keys named
PartialDocument(full, sections, dropped) ==
    [s \in DOMAIN full \ sections |->
        LET section == Drop(full[s], s, dropped)
        IN  [k \in DOMAIN section |->
                IF k \in {"main_objective", "training_zones"}
                THEN (IF section[k] # None THEN Some(Drop(section[k][1], k, dropped)) ELSE None)
                ELSE IF k \in {"intermediate_races", "injuries"}
                THEN [i \in 1..Len(section[k]) |-> Drop(section[k][i], k, dropped)]
                ELSE section[k]]]

\* a profile with every field set, the same without training zones, and the
\* same with an edited text of physiological_metrics_meta
FullProfile ==
    [SampleProfile EXCEPT !.hrv_ms = Some(45), !.vo2_max = Some(60),
                          !.lactate_threshold_bpm = Some(179),
                          !.strength_training_history = TRUE,
                          !.injuries = <<SampleInjury>>,
                          !.training_zones = Some(calculate_training_zones(184, 41))]

PartialProfiles ==
    {FullProfile, [FullProfile EXCEPT !.training_zones = None],
     [FullProfile EXCEPT !.physiological_metrics_meta = "physio meta edited"]}

\* the sets of at most n keys
RECURSIVE KeySets(_)
KeySets(n) ==
    IF n = 0 THEN {{}}
    ELSE LET smaller == KeySets(n - 1)
         IN  smaller \cup {ks \cup {k} : ks \in smaller, k \in DocumentKeys}

PartialDocuments ==
    { PartialDocument(to_dict(p), sections, dropped) :
        p \in PartialProfiles, sections \in SUBSET SectionNames,
        dropped \in KeySets(MaxDroppedKeys) }

InitPartial ==
    /\ CalcIdle /\ PlanIdle /\ CoherenceIdle /\ PersistIdle /\ SessionIdle /\ OptimizerIdle
    /\ profile = create_empty_profile(0)
    /\ doc \in {Some(d) : d \in PartialDocuments}
    /\ copy = None /\ complete = None /\ completeBefore = None
    /\ mpc = "document"

\* models.py: AthleteProfile.from_dict(data), called at time now
FromPartialDict ==
    /\ mpc = "document"
    /\ \E now \in Times : copy' = Some(from_dict(doc[1], now))
    /\ mpc' = "read"
    /\ UNCHANGED <<profile, doc, complete, completeBefore>>
    /\ UNCHANGED OtherThanModel

NextPartial == FromPartialDict

SpecPartial == InitPartial /\ [][NextPartial]_vars

\* the nested dict d with every missing key at its default
Filled(d, defaults) == [k \in DOMAIN defaults |-> Get(d, k, defaults[k])]

\* the document data with every missing section and key at its default, the
\* keys that are present kept as they are; a missing generated_at is the time
\* now of the read
WithDefaults(data, now) ==
    [s \in SectionNames |->
        [k \in DOMAIN DefaultDocument(now)[s] |->
            IF s \in DOMAIN data /\ k \in DOMAIN data[s]
            THEN LET v == data[s][k]
                 IN  IF k = "main_objective"
                     THEN (IF v # None THEN Some(Filled(v[1], RaceDefaults)) ELSE None)
                     ELSE IF k = "training_zones"
                     THEN (IF v # None THEN Some(Filled(v[1], EmptyZones)) ELSE None)
                     ELSE IF k = "intermediate_races"
                     THEN [i \in 1..Len(v) |-> Filled(v[i], RaceDefaults)]
                     ELSE IF k = "injuries"
                     THEN [i \in 1..Len(v) |-> Filled(v[i], InjuryDefaults)]
                     ELSE v
            ELSE DefaultDocument(now)[s][k]]]

\* C19: from_dict never raises for a document in which any subset of sections
\* or keys is missing: every missing field takes its default and every field
\* that is present is read unchanged, so the profile read is the profile of the
\* document completed with the defaults.
C19_MissingKeysTakeDefaults ==
    mpc = "read" => to_dict(copy[1]) = WithDefaults(doc[1], copy[1].generated_at)

(***************************************************************************)
(* calculations.py: validate_physical_metrics and suggest_training_weeks.  *)
(* Heights, weights and ages are whole numbers, for which the comparisons  *)
(* of the body mass index with 15 and 40 are exact.                        *)
(***************************************************************************)
\* calculations.py: validate_physical_metrics; raised stands for the
\* ZeroDivisionError of weight / (height_m ** 2)
validate_physical_metrics(age, weight, height) ==
    LET ageErrors == AppendedIf(age # None /\ (age[1] < 10 \/ age[1] > 100),
                                "Edad fuera del rango valido (10-100)")
        weightErrors == AppendedIf(weight # None /\ (weight[1] < 30 \/ weight[1] > 200),
                                   "Peso fuera del rango tipico (30-200 kg)")
        heightErrors == AppendedIf(height # None /\ (height[1] < 100 \/ height[1] > 250),
                                   "Altura fuera del rango tipico (100-250 cm)")
        both == weight # None /\ height # None
    IN  IF both /\ height[1] = 0
        THEN [raised |-> TRUE, errors |-> << >>]
        ELSE [raised |-> FALSE,
              errors |-> ageErrors \o weightErrors \o heightErrors
                         \o AppendedIf(both /\ (\/ 10000 * weight[1] < 15 * height[1] * height[1]
                                                \/ 10000 * weight[1] > 40 * height[1] * height[1]),
                                       "BMI calculado fuera del rango tipico para atletas")]

\* calculations.py: suggest_training_weeks; now is datetime.now() in half days
suggest_training_weeks(race_date, now) ==
    LET race_dt == strptime(race_date)
    IN  IF race_dt = None THEN None
        ELSE IF 2 * race_dt[1] <= now THEN None
        ELSE LET days_until == (2 * race_dt[1] - now) \div 2
                 weeks_until == days_until \div 7
             IN  IF weeks_until < 6 THEN Some(weeks_until)
                 ELSE IF weeks_until < 12 THEN Some(8)
                 ELSE IF weeks_until < 20 THEN Some(12)
                 ELSE Some(16)

(***************************************************************************)
(* Inputs of these functions and of parse_training_days_input.             *)
(***************************************************************************)
MaxDays == 8

MaxHalfDays == 24

\* how a range of days is written between its two numbers
RangeSeparators == {<<"-">>, <<" ", "a", " ">>, <<" ", "-", " ">>, <<"a">>, <<" ", "A", " ">>}

RangeTexts == {StrOfNat(a) \o sep \o StrOfNat(b) : a \in 0..MaxDays, b \in 0..MaxDays,
                                                   sep \in RangeSeparators}

SingleTexts == {Pad(n, w) : n \in 0..MaxDays, w \in 1..2}

OtherDaysTexts ==
    {<< >>, <<" ">>, <<"x">>, <<"3", "-">>, <<"3", "-", "4", "-", "5">>,
     <<"3", " ", "o", " ", "4">>, <<"L", "u", "n", "e", "s">>, <<"-", "3">>}

TrainingDaysInputs ==
    LET texts == RangeTexts \cup SingleTexts \cup OtherDaysTexts
    IN  texts \cup {<<" ">> \o t \o <<" ">> : t \in texts}

PhysicalInputs ==
    {<<age, weight, height>> :
        age \in {None, Some(-1), Some(0), Some(9), Some(10), Some(30), Some(100), Some(101)},
        weight \in {None, Some(0), Some(29), Some(30), Some(59), Some(60), Some(160), Some(161), Some(201)},
        height \in {None, Some(-175), Some(0), Some(99), Some(100), Some(200), Some(250), Some(251)}}

RaceDateInputs ==
    {<<race_date, now>> : race_date \in DOMAIN RaceDays \cup {"", "pronto"},
                          now \in 0..MaxHalfDays}

(***************************************************************************)
(* These functions as a state machine: a call is chosen with its argument, *)
(* the function returns, and parse_training_days_input is applied again to *)
(* its own result.                                                         *)
(***************************************************************************)
InitCalc2 ==
    /\ ModelIdle /\ PlanIdle /\ CoherenceIdle /\ PersistIdle /\ SessionIdle
    /\ OptimizerIdle
    /\ pc = "called"
    /\ res = None
    /\ \/ fn = "parse_training_days_input" /\ arg \in TrainingDaysInputs
       \/ fn = "validate_physical_metrics" /\ arg \in PhysicalInputs
       \/ fn = "suggest_training_weeks" /\ arg \in RaceDateInputs

ReturnTrainingDays ==
    /\ pc = "called" /\ fn = "parse_training_days_input"
    /\ res' = Some(parse_training_days_input(arg))
    /\ pc' = "returned"
    /\ UNCHANGED <<fn, arg>>
    /\ UNCHANGED OtherThanCalc

\* parse_training_days_input(parse_training_days_input(input_str)): the first
\* result is the argument of the second call
ReturnTrainingDaysAgain ==
    /\ pc = "returned" /\ fn = "parse_training_days_input"
    /\ arg' = res[1]
    /\ res' = Some(parse_training_days_input(res[1]))
    /\ pc' = "returned_again"
    /\ UNCHANGED fn
    /\ UNCHANGED OtherThanCalc

ReturnPhysicalMetrics ==
    /\ pc = "called" /\ fn = "validate_physical_metrics"
    /\ res' = Some(validate_physical_metrics(arg[1], arg[2], arg[3]))
    /\ pc' = "returned"
    /\ UNCHANGED <<fn, arg>>
    /\ UNCHANGED OtherThanCalc

ReturnSuggestedWeeks ==
    /\ pc = "called" /\ fn = "suggest_training_weeks"
    /\ res' = suggest_training_weeks(arg[1], arg[2])
    /\ pc' = "returned"
    /\ UNCHANGED <<fn, arg>>
    /\ UNCHANGED OtherThanCalc

NextCalc2 ==
    \/ ReturnTrainingDays
    \/ ReturnTrainingDaysAgain
    \/ ReturnPhysicalMetrics
    \/ ReturnSuggestedWeeks

SpecCalc2 == InitCalc2 /\ [][NextCalc2]_vars

(***************************************************************************)
(* cli.py: the date of a race as manage_main_objective,                    *)
(* create_intermediate_race and edit_intermediate_race ask for it.  The    *)
(* prompt asks again while date_validator raises ValidationError; today is *)
(* date.today() in days from 2027-10-04.                                   *)
(***************************************************************************)
MaxToday == 12

\* validators.py: DateValidator.validate, as date_validator = DateValidator()
\* is built: must_be_future and allow_empty are both True.  TRUE when no
\* ValidationError is raised
DateValidator(text, today) ==
    IF text = "" THEN TRUE
    ELSE LET input_date == strptime(text)
         IN  input_date # None /\ input_date[1] > today

\* calculations.py: validate_race_date, the first element of its result
validate_race_date(date_str, today) ==
    LET race_date == strptime(date_str)
    IN  race_date # None /\ race_date[1] > today

\* the texts typed at the date prompt, trimmed
DateTexts == DOMAIN RaceDays \cup {"", "pronto"}

RaceEntries == {"manage_main_objective", "create_intermediate_race", "edit_intermediate_race"}

InitRaceEntry ==
    /\ ModelIdle /\ PlanIdle /\ CoherenceIdle /\ PersistIdle /\ SessionIdle
    /\ OptimizerIdle
    /\ pc = "called"
    /\ res = None
    /\ fn \in RaceEntries
    /\ arg \in [text : DateTexts, today : 0..MaxToday]

\* prompt(..., validator=date_validator): the text is refused and the user
\* types another
DateRefused ==
    /\ pc = "called" /\ fn \in RaceEntries
    /\ ~DateValidator(arg.text, arg.today)
    /\ \E text \in DateTexts : arg' = [arg EXCEPT !.text = text]
    /\ UNCHANGED <<fn, res, pc>>
    /\ UNCHANGED OtherThanCalc

\* cli.py: manage_main_objective: the date is accepted by the prompt and then
\* checked by validate_race_date, which returns the profile unchanged when
\* the date is not valid
ManageMainObjective ==
    /\ pc = "called" /\ fn = "manage_main_objective"
    /\ DateValidator(arg.text, arg.today)
    /\ res' = IF validate_race_date(arg.text, arg.today)
              THEN Some([SampleRaceA EXCEPT !.date = arg.text])
              ELSE None
    /\ pc' = "returned"
    /\ UNCHANGED <<fn, arg>>
    /\ UNCHANGED OtherThanCalc

\* cli.py: create_intermediate_race: the date the prompt accepted is the date
\* of the Race that is appended
CreateIntermediateRace ==
    /\ pc = "called" /\ fn = "create_intermediate_race"
    /\ DateValidator(arg.text, arg.today)
    /\ res' = Some([SampleRaceB EXCEPT !.date = arg.text])
    /\ pc' = "returned"
    /\ UNCHANGED <<fn, arg>>
    /\ UNCHANGED OtherThanCalc

\* cli.py: edit_intermediate_race: the date the prompt accepted is the date
\* of the Race that replaces the edited one
EditIntermediateRace ==
    /\ pc = "called" /\ fn = "edit_intermediate_race"
    /\ DateValidator(arg.text, arg.today)
    /\ res' = Some([EditedRace EXCEPT !.date = arg.text])
    /\ pc' = "returned"
    /\ UNCHANGED <<fn, arg>>
    /\ UNCHANGED OtherThanCalc

NextRaceEntry ==
    \/ DateRefused
    \/ ManageMainObjective
    \/ CreateIntermediateRace
    \/ EditIntermediateRace

SpecRaceEntry == InitRaceEntry /\ [][NextRaceEntry]_vars

(***************************************************************************)
(* Properties of the pure functions (checked under SpecCalc).              *)
(***************************************************************************)
Returned(f) == fn = f /\ pc = "returned"

D(n) == DigitChars[n + 1]

\* arg is A:B with A of la digits and B of two digits
IsColonPair(s, la) ==
    /\ Len(s) = la + 3
    /\ s[la + 1] = ":"
    /\ \A i \in (1..la) \cup {la + 2, la + 3} : IsDigit(s[i])

\* C1: parse_time_input reads every two-field input A:B (A of one or two
\* digits, B of two digits, B < 60) as A minutes and B seconds: the result is
\* "HH:MM:SS" with hours = A div 60, minutes = A mod 60 and seconds = B.
C1_TwoFieldsAreMinutesSeconds ==
    Returned("parse_time_input") =>
        \A la \in 1..2 :
            (IsColonPair(arg, la) /\ IntOfDigits(SubSeq(arg, la + 2, la + 3)) < 60) =>
                LET a == IntOfDigits(SubSeq(arg, 1, la))
                    b == IntOfDigits(SubSeq(arg, la + 2, la + 3))
                    h == a \div 60
                    m == a % 60
                IN  res = Some(<<D(h \div 10), D(h % 10), ":", D(m \div 10), D(m % 10), ":",
                                 D(b \div 10), D(b % 10)>>)

\* "90:00" has been parsed to "01:30:00"
C1_Witness ==
    /\ Returned("parse_time_input")
    /\ arg = <<"9", "0", ":", "0", "0">>
    /\ res = Some(<<"0", "1", ":", "3", "0", ":", "0", "0">>)

\* the bound before and after the "-" of a zone string
ZoneLower(z) == IntOfDigits(SubSeq(z, 1, DigitRunLen(z)))

ZoneUpper(z) == IntOfDigits(SubSeq(z, DigitRunLen(z) + 2, Len(z)))

ZoneLowers(zones) ==
    <<ZoneLower(zones.zone1_hr[1]), ZoneLower(zones.zone2_hr[1]), ZoneLower(zones.zone3_hr[1]),
      ZoneLower(zones.zone4_hr[1]), ZoneLower(zones.zone5_hr[1])>>

\* C2 as stated: for every max_hr > resting_hr the five lower bounds are
\* strictly increasing and zone 5's upper bound equals max_hr.
C2_Original ==
    Returned("calculate_training_zones") =>
        /\ \A i \in 1..4 : ZoneLowers(res)[i] < ZoneLowers(res)[i + 1]
        /\ ZoneUpper(res.zone5_hr[1]) = arg[1]

\* C2 amended: the five lower bounds are strictly increasing whenever
\* max_hr - resting_hr >= 10; for every max_hr > resting_hr they are
\* non-decreasing and zone 5's upper bound equals max_hr.
C2_LowerBoundsOrdered ==
    Returned("calculate_training_zones") =>
        /\ arg[1] - arg[2] >= 10 => \A i \in 1..4 : ZoneLowers(res)[i] < ZoneLowers(res)[i + 1]
        /\ \A i \in 1..4 : ZoneLowers(res)[i] <= ZoneLowers(res)[i + 1]
        /\ ZoneUpper(res.zone5_hr[1]) = arg[1]

\* zones returned for a reserve of exactly 10, one beat per zone
C2_Witness ==
    /\ Returned("calculate_training_zones")
    /\ arg[1] - arg[2] = 10
    /\ ZoneLowers(res) = <<arg[2] + 5, arg[2] + 6, arg[2] + 7, arg[2] + 8, arg[2] + 9>>

\* C3 as stated: max_hr = 184, resting_hr = 41 gives zone1_hr = "112-127"
\* and zone5_hr = "169-184".
C3_Original ==
    (Returned("calculate_training_zones") /\ arg = <<184, 41>>) =>
        /\ res.zone1_hr = Some(<<"1", "1", "2", "-", "1", "2", "7">>)
        /\ res.zone5_hr = Some(<<"1", "6", "9", "-", "1", "8", "4">>)

\* C3 amended: max_hr = 184, resting_hr = 41 gives zone1_hr = "112-127" and
\* zone5_hr = "170-184" (41 + 0.9 * 143 = 169.7 rounds to 170).
C3_SampleZones ==
    (Returned("calculate_training_zones") /\ arg = <<184, 41>>) =>
        /\ res.zone1_hr = Some(<<"1", "1", "2", "-", "1", "2", "7">>)
        /\ res.zone5_hr = Some(<<"1", "7", "0", "-", "1", "8", "4">>)

\* the zones of 184/41 have been returned
C3_Witness ==
    /\ Returned("calculate_training_zones")
    /\ arg = <<184, 41>>
    /\ res.zone3_hr = Some(<<"1", "4", "1", "-", "1", "5", "5">>)

\* C4 as stated: for every string, the empty one included,
\* normalize_gender_input returns one of "Masculino", "Femenino", "Otro".
C4_GenderIsCanonical ==
    Returned("normalize_gender_input") => res \in {Masculino, Femenino, Otro}

\* the distance of a value in tenths from weight / (height / 100)^2, in units
\* of 1 / (10 * height^2)
BmiError(tenths, weight_kg, height_cm) ==
    LET diff == tenths * height_cm * height_cm - 100000 * weight_kg
    IN  IF diff < 0 THEN -diff ELSE diff

\* C18: calculate_bmi returns None whenever weight_kg or height_cm is missing,
\* zero or negative, and otherwise weight / (height/100)^2 rounded to one
\* decimal (a nearest tenth); calculate_bmi(0, 180) is None and
\* calculate_bmi(70, 175) is 22.9.
C18_BmiRoundedOrNone ==
    Returned("calculate_bmi") =>
        /\ IF arg[1] = None \/ arg[2] = None THEN res = None
           ELSE IF arg[1][1] <= 0 \/ arg[2][1] <= 0 THEN res = None
           ELSE /\ res # None
                /\ 2 * BmiError(res[1], arg[1][1], arg[2][1]) <= arg[2][1] * arg[2][1]
        /\ arg = <<Some(0), Some(180)>> => res = None
        /\ arg = <<Some(70), Some(175)>> => res = Some(229)

\* calculate_bmi(70, 175) has returned 22.9
C18_Witness ==
    /\ Returned("calculate_bmi")
    /\ arg = <<Some(70), Some(175)>>
    /\ res = Some(229)

\* the input "<n><sep><form>" for a natural number n
PeriodText(n, sep, form) == StrOfNat(n) \o sep \o form

\* C20: for every number n and every documented unit token (Spanish or
\* English day, week, month, year, singular or plural, and the abbreviations
\* d, s, w, m, mo, a, y, in any case) normalize_period returns "<n> <unit>"
\* with the Spanish unit in the singular when n is 1 and in the plural
\* otherwise; a bare number n is taken as months; the words empezando,
\* starting and comenzando give "Empezando ahora".
C20_PeriodNormalized ==
    Returned("normalize_period") =>
        /\ \A n \in 0..MaxPeriod, u \in DocumentedUnits :
              arg \in {PeriodText(n, <<" ">>, form) : form \in CaseForms(u.token)} =>
                  res = Some(StrOfNat(n) \o <<" ">> \o (IF n = 1 THEN u.singular ELSE u.plural))
        /\ \A n \in 0..MaxPeriod :
              arg = StrOfNat(n) =>
                  res = Some(StrOfNat(n) \o <<" ">> \o (IF n = 1 THEN <<"m", "e", "s">> ELSE <<"m", "e", "s", "e", "s">>))
        /\ Lower(arg) \in StartingWords => res = Some(EmpezandoAhora)

\* the text is "<H>h<MM>m": digits, an h, two digits and an m
IsHoursMinutes(text) ==
    LET k == Len(text)
    IN  /\ k >= 5
        /\ text[k] = "m" /\ text[k - 3] = "h"
        /\ \A i \in (1..(k - 4)) \cup {k - 2, k - 1} : IsDigit(text[i])

\* C22: parse_time_input reads the form "<H>h<MM>m" as H hours and MM minutes
\* with zero seconds: for every H and every MM < 60 the result is the
\* zero-padded "HH:MM:00", so "1h25m" gives "01:25:00".
C22_HoursMinutesForm ==
    (Returned("parse_time_input") /\ IsHoursMinutes(arg)) =>
        LET k == Len(arg)
            hours == IntOfDigits(SubSeq(arg, 1, k - 4))
            minutes == SubSeq(arg, k - 2, k - 1)
        IN  IntOfDigits(minutes) < 60 =>
                res = Some(Fmt02d(hours) \o <<":">> \o minutes \o <<":", "0", "0">>)

\* the unit tokens taken as documented: those of DocumentedUnits and every key
\* of the two dictionaries, in lower case
DocumentedTokens ==
    {Lower(u.token) : u \in DocumentedUnits}
    \cup {Lower(time_units_es[i].key) : i \in 1..Len(time_units_es)}
    \cup {Lower(time_units_en[i].key) : i \in 1..Len(time_units_en)}

\* the text is a number followed by a documented unit token, a bare number, or
\* a phrase holding one of the words empezando, starting, comenzando
IsDocumentedPeriod(text) ==
    LET t == Strip(Lower(text))
        n == NumberLen(t)
    IN  \/ \E word \in StartingWords : Contains(t, word)
        \/ n > 0 /\ n = Len(t)
        \/ n > 0 /\ LStrip(SubSeq(t, n + 1, Len(t))) \in DocumentedTokens

\* C21: normalize_period returns None for every input that is not a number
\* followed by a documented unit token, a bare number or a starting-now phrase;
\* a number followed by any other word is never normalized to a period.
C21_UnrecognizedGivesNone ==
    (Returned("normalize_period") /\ ~IsDocumentedPeriod(arg)) => res = None

\* the result the claim gives for the range a to b
RangeResult(a, b, text) ==
    LET lo == IF a < b THEN a ELSE b
        hi == IF a < b THEN b ELSE a
    IN  IF 1 <= lo /\ hi <= DaysInWeek THEN StrOfNat(lo) \o <<"-">> \o StrOfNat(hi)
        ELSE Strip(text)

\* C30: parse_training_days_input returns the string n for a single integer n
\* with 1 <= n <= 7; "lo-hi" with lo = min(a, b) and hi = max(a, b) for a range
\* written "a-b" or "a a b" with 1 <= lo and hi <= 7; and the trimmed input
\* unchanged for every other input.  Applying it twice gives the same result
\* as applying it once.
C30_TrainingDaysNormalized ==
    /\ (fn = "parse_training_days_input" /\ pc = "returned") =>
          /\ \A n \in 0..MaxDays, w \in 1..2 :
                Strip(arg) = Pad(n, w) =>
                    res = Some(IF 1 <= n /\ n <= DaysInWeek THEN StrOfNat(n) ELSE Strip(arg))
          /\ \A a \in 0..MaxDays, b \in 0..MaxDays, sep \in RangeSeparators :
                Strip(arg) = StrOfNat(a) \o sep \o StrOfNat(b) =>
                    res = Some(RangeResult(a, b, arg))
          /\ Strip(arg) \in OtherDaysTexts => res = Some(Strip(arg))
    /\ (fn = "parse_training_days_input" /\ pc = "returned_again") => res = Some(arg)

\* " 5 a 3 " has been normalized to "3-5", and normalizing "3-5" gave "3-5"
C30_Witness ==
    /\ fn = "parse_training_days_input" /\ pc = "returned_again"
    /\ arg = <<"3", "-", "5">>
    /\ res = Some(<<"3", "-", "5">>)

\* C25: validate_physical_metrics never raises, whatever age, weight and height
\* are, each None or any number including zero: it returns a list of warnings.
C25_PhysicalMetricsNeverRaise ==
    (fn = "validate_physical_metrics" /\ pc = "returned") => ~res[1].raised

\* the whole weeks between now, in half days, and the day of the race
WholeWeeksUntil(race_date, now) == (2 * RaceDays[race_date] - now) \div 14

\* C28: for a race date in the future, suggest_training_weeks never suggests
\* more weeks than the whole weeks between now and the race; for a date that
\* is not in the future or cannot be parsed it returns None.
C28_SuggestedWeeksFit ==
    (fn = "suggest_training_weeks" /\ pc = "returned") =>
        IF arg[1] \in DOMAIN RaceDays /\ 2 * RaceDays[arg[1]] > arg[2]
        THEN res # None /\ res[1] <= WholeWeeksUntil(arg[1], arg[2])
        ELSE res = None

\* C29: optimize_profile_for_ai is total: for every structurally valid profile,
\* the empty profile and a profile whose training_days_per_week holds any value
\* parse_training_days_input can return included, it returns a document
\* without raising.
C29_OptimizerTotal == opc # "raised"

\* the fields of the profile that count double in the completeness score, and
\* whether each is populated
CorePopulated(p) ==
    <<p.name # "", TruthyNumber(p.age), p.gender # << >>, TruthyNumber(p.max_hr),
      TruthyNumber(p.resting_hr), TruthyNumber(p.avg_weekly_km),
      p.training_days_per_week # << >>, p.main_objective # None>>

\* the other optional fields and the three collections, and whether each is
\* populated; the two booleans always hold a value
SinglePopulated(p) ==
    <<p.height_cm # None, p.weight_kg # None, p.vo2_max # None,
      p.lactate_threshold_bpm # None, p.hrv_ms # None, TRUE, TRUE,
      p.quality_session_preference # "",
      \E k \in DOMAIN p.personal_bests :
          p.personal_bests[k] # None /\ p.personal_bests[k][1] # << >>,
      p.intermediate_races # << >>, p.injuries # << >>>>

\* C24: in the profile-completeness score each of the eight core fields adds 2
\* to the denominator, and 2 to the numerator when it is populated; every other
\* optional field and each of the three collections (personal bests,
\* intermediate races, injuries) adds 1 to the denominator, and 1 to the
\* numerator only when it is populated; the percentage is 100 x numerator /
\* denominator and lies between 0 and 100.
C24_CompletenessWeights ==
    \A i \in 1..Len(aiCalls) :
        LET p == aiCalls[i].given
            score == aiCalls[i].data.athlete_summary.profile_completeness
            core == CorePopulated(p)
            single == SinglePopulated(p)
            numerator == 2 * Cardinality({k \in 1..Len(core) : core[k]})
                         + Cardinality({k \in 1..Len(single) : single[k]})
            denominator == 2 * Len(core) + Len(single)
        IN  /\ score.completed_fields = numerator
            /\ score.total_fields = denominator
            /\ score.completeness_percentage
                   = (2 * 1000 * numerator + denominator) \div (2 * denominator)
            /\ score.completeness_percentage \in 0..1000

\* the call of generate_training_plan ended because the request raised
RequestRaised == ppc = "returned" /\ requests = 1 /\ response = None

\* C26: one call of generate_training_plan sends at most one request to the
\* external model and never retries; if the API key is missing or the request
\* raises, the function returns None without raising and nothing is persisted.
C26_SingleAttemptFailsClean ==
    /\ requests <= 1
    /\ file = MissingFile
    /\ apiKey = "missing" =>
          /\ requests = 0
          /\ ppc \in {"called", "returned"}
          /\ planResult = None
    /\ RequestRaised => planResult = None

\* the request of a call with a configured key has raised, and the call
\* returned None
C26_Witness == RequestRaised /\ apiKey = "valid" /\ planResult = None

\* cli.py: has_changes, the indicator show_main_menu is given at the top of
\* the loop
has_changes == profiles_are_different(baseline[1], profile)

\* the canonical document of the profile is not the one of the baseline
DocumentDiffers ==
    StripGeneratedAt(to_dict(profile)) # StripGeneratedAt(to_dict(baseline[1]))

\* at every menu the indicator says whether the documents differ, and before
\* any edit it is false
IndicatorRight ==
    spc = "menu" =>
        /\ has_changes <=> DocumentDiffers
        /\ edits = 0 => ~has_changes

\* a save through option 8 leaves the indicator false when it wrote the file
\* and true when it failed; with nothing to save the indicator stays false;
\* no other step at the menu replaces the baseline
IndicatorFollowsSave ==
    /\ MenuSave =>
          IF has_changes
          THEN has_changes' <=> file' # JsonFile(to_dict(profile))
          ELSE ~has_changes' /\ file' = file
    /\ (spc = "menu" /\ ~MenuSave) => baseline' = baseline

\* C27: in the interactive session the unsaved-changes indicator is true
\* exactly when the canonical document of the current profile (generated_at
\* removed) differs from the baseline: it is false at session start before any
\* edit, it becomes false right after a successful save through option 8 and
\* stays false until a later edit changes the document, and after a failed
\* save it stays true.
C27_IndicatorTracksBaseline == [](IndicatorRight) /\ [][IndicatorFollowsSave]_vars

\* an edited profile has been saved through option 8: the file holds it and
\* the indicator is false
C27_Witness ==
    /\ spc = "menu" /\ edits > 0 /\ explicitSave
    /\ file = JsonFile(to_dict(profile)) /\ file # fileBefore
    /\ ~has_changes

\* C23: every Race that the add and edit operations store (the main objective
\* and each intermediate race) has a date that parses as a YYYY-MM-DD calendar
\* date and that was strictly after the current day when it was entered; no
\* race with an empty or unparseable date can be stored through these
\* operations.
C23_StoredRaceDateIsFuture ==
    (fn \in RaceEntries /\ pc = "returned" /\ res # None) =>
        /\ strptime(res[1].date) # None
        /\ strptime(res[1].date)[1] > arg.today

====
